---- MODULE Spec2Model ----
(***************************************************************************)
(* Model of the biblioteca document library client.                        *)
(*                                                                         *)
(*   src/src/App.tsx                      App state, the filter effect,    *)
(*                                        derived collections, handlers    *)
(*   src/src/components/Sidebar.tsx       filter option handlers           *)
(*   src/src/components/FilesView.tsx     opening and closing the viewer   *)
(*   src/src/components/Editor.tsx        the article form                 *)
(*   src/src/services/documentService.ts  store operations                 *)
(*   src/unnamed/part_000                 UploadModal                      *)
(*   src/unnamed/part_002                 DocumentViewer                   *)
(*                                                                         *)
(* JavaScript strings on which the code computes (toLowerCase, includes,   *)
(* endsWith, trim) are sequences of one-character strings.  Values the     *)
(* code only compares for equality (type, section, timeframe) are atoms.   *)
(* Time is counted in hours: getTime() / 3 600 000.                        *)
(***************************************************************************)
EXTENDS Integers, Sequences, FiniteSets, TLC

VARIABLES
    \* App.tsx useState
    documents, filteredDocuments, currentSection, searchQuery, filters,
    \* the host: system clock (hours) and the local time zone offset (hours)
    now, tz,
    \* UploadModal useState (part_000)
    title, selectedFile, backgroundColor, isUploading, modalError,
    isUploadModalVisible,
    \* uploadFile in flight (documentService.ts) and the external store
    upl, storageBlobs, dbRows,
    \* history of the upload form: the file just offered to the dropzone, whether a
    \* colour was picked in the form, and the last completed upload
    offered, colorPicked, lastUpload,
    \* App.tsx useState isLoading and error, and whether fetchDocuments is in flight
    isLoading, error, listing,
    \* FilesView useState
    selectedDocument, isViewerOpen,
    \* DocumentViewer useState (part_002), one record, and the invocations of
    \* loadDocument, in flight and returned
    viewer, loads,
    \* the invocations of handleToggleFavorite and handleDeleteDocument, in flight
    \* and returned
    ops,
    \* Editor useState, one record, the saveArticle call in flight, and App's
    \* isEditorVisible
    editor, saving, isEditorVisible

appVars    == <<documents, filteredDocuments, currentSection, searchQuery, filters>>
hostVars   == <<now, tz>>
modalVars  == <<title, selectedFile, backgroundColor, isUploading, modalError,
                isUploadModalVisible>>
svcVars    == <<upl, storageBlobs, dbRows>>
histVars   == <<offered, colorPicked, lastUpload>>
loadVars   == <<isLoading, error, listing>>
viewVars   == <<selectedDocument, isViewerOpen, viewer, loads>>
editorVars == <<editor, saving, isEditorVisible>>
restVars   == <<loadVars, viewVars, ops, editorVars>>
vars       == <<appVars, hostVars, modalVars, svcVars, histVars, restVars>>

-----------------------------------------------------------------------------
(* Bounds of the model *)

\* documents held at once in SpecFilter (rich documents, every filter option)
MaxDocs == 2
\* documents held at once in SpecLibrary (plain documents, sections and search)
MaxLibrary == 7
\* documents created by uploads
MaxUploads == 1
\* documents created by the editor
MaxArticles == 1
\* invocations of handleToggleFavorite and handleDeleteDocument
MaxOps == 2
\* invocations of loadDocument
MaxLoads == 2

-----------------------------------------------------------------------------
(* JavaScript values *)

\* null / undefined for a string-valued field
Null == <<"null">>

\* !x for a string-valued field: null, undefined and '' are falsy
Falsy(x) == x = Null \/ x = <<>>

\* a || b
OrElse(a, b) == IF Falsy(a) THEN b ELSE a

UpperCase == <<"A","B","C","D","E","F","G","H","I","J","K","L","M",
               "N","O","P","Q","R","S","T","U","V","W","X","Y","Z">>
LowerCase == <<"a","b","c","d","e","f","g","h","i","j","k","l","m",
               "n","o","p","q","r","s","t","u","v","w","x","y","z">>

\* the lower-case letter of each upper-case letter
UpperToLower ==
    [c \in {UpperCase[i] : i \in 1..26} |->
        LowerCase[CHOOSE i \in 1..26 : UpperCase[i] = c]]

ToLowerChar(c) == IF c \in DOMAIN UpperToLower THEN UpperToLower[c] ELSE c

\* String.prototype.toLowerCase
ToLowerCase(s) == [i \in 1..Len(s) |-> ToLowerChar(s[i])]

\* String.prototype.includes
Includes(s, sub) ==
    \E i \in 0..(Len(s) - Len(sub)) : SubSeq(s, i + 1, i + Len(sub)) = sub

\* String.prototype.endsWith
EndsWith(s, suffix) ==
    /\ Len(suffix) <= Len(s)
    /\ SubSeq(s, Len(s) - Len(suffix) + 1, Len(s)) = suffix

\* Array.prototype.includes
Contains(seq, x) == \E i \in 1..Len(seq) : seq[i] = x

\* a de-duplication that keeps every element
DistinctKeepsAll(seq) == seq

\* [...new Set(seq)]: each value once, in first-seen order
RECURSIVE Distinct(_)
Distinct(seq) ==
    IF seq = <<>> THEN <<>>
    ELSE LET init == Distinct(SubSeq(seq, 1, Len(seq) - 1))
             last == seq[Len(seq)]
         IN  IF Contains(init, last) THEN init ELSE Append(init, last)

\* Array.prototype.flatMap
RECURSIVE FlatMapTags(_)
FlatMapTags(docs) ==
    IF docs = <<>> THEN <<>> ELSE Head(docs).tags \o FlatMapTags(Tail(docs))

-----------------------------------------------------------------------------
(* Strings used by the model *)

sAll           == <<"a","l","l">>
sUncategorized == <<"u","n","c","a","t","e","g","o","r","i","z","e","d">>
sWork          == <<"W","o","r","k">>
sPdfQuery      == <<"p","d","f">>
sTitlePdf      == <<"P","D","F"," ","n","o","t","e","s">>
sTitlePlan     == <<"P","l","a","n">>
sTagA          == <<"a">>
sTagB          == <<"b">>
sTagC          == <<"c">>
sDesign        == <<"d","e","s","i","g","n">>
sBlank         == <<" ">>

\* colours (documentService.ts:263-283, ColorPicker.tsx:14-24)
ColorDefault  == <<"#","E","3","F","2","F","D">>
ColorPdf      == <<"#","F","F","E","B","E","E">>
ColorDoc      == <<"#","E","8","F","5","E","9">>
ColorImage    == <<"#","F","F","F","8","E","1">>
ColorMarkdown == <<"#","E","1","F","5","F","E">>
ColorText     == <<"#","F","3","E","5","F","5">>
ColorGray     == <<"#","F","A","F","A","F","A">>

-----------------------------------------------------------------------------
(* Documents *)

\* transformSupabaseDocument: a store row to a Document
transformSupabaseDocument(record) ==
    [ id              |-> record.id,
      title           |-> record.title,
      type            |-> record.type,
      tags            |-> IF record.tags = Null THEN <<>> ELSE record.tags,
      dateAdded       |-> record.date_added,
      favorite        |-> record.favorite,
      category        |-> OrElse(record.category, <<>>),
      backgroundColor |-> OrElse(record.background_color, ColorDefault),
      content         |-> record.content,
      storagePath     |-> record.storage_path ]

Row(id, ttl, type, tags, date, fav, cat) ==
    [ id |-> id, title |-> ttl, type |-> type, tags |-> tags, date_added |-> date,
      favorite |-> fav, category |-> cat, background_color |-> ColorDefault,
      content       |-> IF type = "article" THEN <<"t">> ELSE Null,
      storage_path  |-> IF type = "article" THEN Null ELSE <<"f">> ]

-----------------------------------------------------------------------------
(* The filter effect, App.tsx:43-115 *)

HoursPerDay == 24
RecentLimit == 6

Sections   == {"files", "articles", "favorites", "recent"}
Timeframes == {"all", "today", "thisWeek", "thisMonth"}

DefaultFilters ==
    [types |-> <<>>, categories |-> <<>>, timeframe |-> "all", tags |-> <<>>]

\* an insertion that puts d in front of the elements of its own date
RECURSIVE InsertByDateDescBeforeTies(_, _)
InsertByDateDescBeforeTies(sorted, d) ==
    IF sorted = <<>> THEN <<d>>
    ELSE IF Head(sorted).dateAdded > d.dateAdded
         THEN <<Head(sorted)>> \o InsertByDateDescBeforeTies(Tail(sorted), d)
         ELSE <<d>> \o sorted

\* insert d behind every element that is not older than d
RECURSIVE InsertByDateDesc(_, _)
InsertByDateDesc(sorted, d) ==
    IF sorted = <<>> THEN <<d>>
    ELSE IF Head(sorted).dateAdded >= d.dateAdded
         THEN <<Head(sorted)>> \o InsertByDateDesc(Tail(sorted), d)
         ELSE <<d>> \o sorted

\* filtered.sort((a, b) => getTime(b.dateAdded) - getTime(a.dateAdded)):
\* Array.prototype.sort is stable
RECURSIVE SortByDateDesc(_)
SortByDateDesc(docs) ==
    IF docs = <<>> THEN <<>>
    ELSE InsertByDateDesc(SortByDateDesc(SubSeq(docs, 1, Len(docs) - 1)),
                          docs[Len(docs)])

\* a slice that keeps one element too many
Slice0Inclusive(seq, n) == SubSeq(seq, 1, IF Len(seq) < n + 1 THEN Len(seq) ELSE n + 1)

\* .slice(0, n)
Slice0(seq, n) == SubSeq(seq, 1, IF Len(seq) < n THEN Len(seq) ELSE n)
\* a section stage whose "favorites" and "articles" tests are exchanged
SectionFilterSwapped(docs, section) ==
    IF section = "favorites" THEN SelectSeq(docs, LAMBDA doc : doc.type = "article")
    ELSE IF section = "articles" THEN SelectSeq(docs, LAMBDA doc : doc.favorite)
    ELSE IF section = "recent" THEN Slice0(SortByDateDesc(docs), RecentLimit)
    ELSE docs

\* a section stage that sorts by date in the default section too
SectionFilterSortsFiles(docs, section) ==
    IF section = "favorites" THEN SelectSeq(docs, LAMBDA doc : doc.favorite)
    ELSE IF section = "articles"
         THEN SelectSeq(docs, LAMBDA doc : doc.type = "article")
    ELSE IF section = "recent" THEN Slice0(SortByDateDesc(docs), RecentLimit)
    ELSE SortByDateDesc(docs)

SectionFilter(docs, section) ==
    IF section = "favorites" THEN SelectSeq(docs, LAMBDA doc : doc.favorite)
    ELSE IF section = "articles"
         THEN SelectSeq(docs, LAMBDA doc : doc.type = "article")
    ELSE IF section = "recent" THEN Slice0(SortByDateDesc(docs), RecentLimit)
    ELSE docs
\* a search that reads the title only
SearchMatchTitleOnly(doc, query) == Includes(ToLowerCase(doc.title), query)

\* a search that compares the fields as they are written, letter case included
SearchMatchCaseSensitive(doc, query) ==
    \/ Includes(doc.title, query)
    \/ \E i \in 1..Len(doc.tags) : Includes(doc.tags[i], query)
    \/ (~Falsy(doc.category) /\ Includes(doc.category, query))

SearchMatch(doc, query) ==
    \/ Includes(ToLowerCase(doc.title), query)
    \/ \E i \in 1..Len(doc.tags) : Includes(ToLowerCase(doc.tags[i]), query)
    \/ (~Falsy(doc.category) /\ Includes(ToLowerCase(doc.category), query))

SearchFilter(docs, q) ==
    IF Falsy(q) THEN docs
    ELSE SelectSeq(docs, LAMBDA doc : SearchMatch(doc, ToLowerCase(q)))

TypeMatch(doc, types) == Contains(types, doc.type) \/ Contains(types, "all")

TypeFilter(docs, types) ==
    IF Len(types) > 0 THEN SelectSeq(docs, LAMBDA doc : TypeMatch(doc, types))
    ELSE docs

CategoryMatch(doc, categories) ==
    \/ Contains(categories, doc.category)
    \/ Contains(categories, sAll)
    \/ (Contains(categories, sUncategorized) /\ Falsy(doc.category))

CategoryFilter(docs, categories) ==
    IF Len(categories) > 0
    THEN SelectSeq(docs, LAMBDA doc : CategoryMatch(doc, categories))
    ELSE docs

\* a tag test that asks for every selected tag
TagMatchEvery(doc, tags) ==
    \A j \in 1..Len(tags) : \E i \in 1..Len(doc.tags) : doc.tags[i] = tags[j]

TagMatch(doc, tags) == \E i \in 1..Len(doc.tags) : Contains(tags, doc.tags[i])

TagFilter(docs, tags) ==
    IF Len(tags) > 0 THEN SelectSeq(docs, LAMBDA doc : TagMatch(doc, tags))
    ELSE docs

\* new Date(now.getFullYear(), now.getMonth(), now.getDate()).getTime():
\* the instant of the last local midnight, for a host zone hours ahead of UTC
StartOfLocalDay(t, zone) == t - ((t + zone) % HoursPerDay)

\* a time test whose "today" reaches one day back from local midnight
TimeMatchDayBack(doc, timeframe, today) ==
    CASE timeframe = "today"     -> doc.dateAdded >= today - 24
      [] timeframe = "thisWeek"  -> doc.dateAdded >= today - (7 * 24)
      [] timeframe = "thisMonth" -> doc.dateAdded >= today - (30 * 24)
      [] OTHER                   -> TRUE
\* a time test whose week and month leave out the document dated at the limit
TimeMatchAfterLimit(doc, timeframe, today) ==
    CASE timeframe = "today"     -> doc.dateAdded >= today
      [] timeframe = "thisWeek"  -> doc.dateAdded > today - (7 * 24)
      [] timeframe = "thisMonth" -> doc.dateAdded > today - (30 * 24)
      [] OTHER                   -> TRUE

TimeMatch(doc, timeframe, today) ==
    CASE timeframe = "today"     -> doc.dateAdded >= today
      [] timeframe = "thisWeek"  -> doc.dateAdded >= today - (7 * 24)
      [] timeframe = "thisMonth" -> doc.dateAdded >= today - (30 * 24)
      [] OTHER                   -> TRUE

TimeFilter(docs, timeframe, t, zone) ==
    IF timeframe # "all"
    THEN SelectSeq(docs, LAMBDA doc : TimeMatch(doc, timeframe, StartOfLocalDay(t, zone)))
    ELSE docs
\* an effect body that takes the most recent documents after the other stages
FilterRecentLast(docs, section, q, f, t, zone) ==
    LET kept ==
          TimeFilter(
            TagFilter(
              CategoryFilter(
                TypeFilter(
                  SearchFilter(
                    IF section = "recent" THEN docs ELSE SectionFilter(docs, section),
                    q),
                  f.types),
                f.categories),
              f.tags),
            f.timeframe, t, zone)
    IN  IF section = "recent" THEN SectionFilter(kept, section) ELSE kept

\* an effect body that leaves out the tag stage
FilterWithoutTags(docs, section, q, f, t, zone) ==
    TimeFilter(
      CategoryFilter(
        TypeFilter(
          SearchFilter(
            SectionFilter(docs, section), q),
          f.types),
        f.categories),
      f.timeframe, t, zone)

\* the whole effect body: the value handed to setFilteredDocuments
Filter(docs, section, q, f, t, zone) ==
    TimeFilter(
      TagFilter(
        CategoryFilter(
          TypeFilter(
            SearchFilter(
              SectionFilter(docs, section), q),
            f.types),
          f.categories),
        f.tags),
      f.timeframe, t, zone)

\* an effect that sorts the array of the state itself
EffectOnCollectionInPlace(docs, section) ==
    IF section = "recent" THEN SortByDateDesc(docs) ELSE docs

\* let filtered = [...documents], line 44: the stages work on a copy, sort
\* included, so the array held in the state is after the effect what the handler
\* made it
EffectOnCollection(docs, section) == docs

\* React runs the effect after every render in which a dependency changed
FilterEffect ==
    filteredDocuments' =
        Filter(documents', currentSection', searchQuery', filters', now', tz')

-----------------------------------------------------------------------------
(* Derived collections, App.tsx:207-222 *)

RECURSIVE MapCategory(_)
MapCategory(docs) ==
    IF docs = <<>> THEN <<>> ELSE <<Head(docs).category>> \o MapCategory(Tail(docs))

getAvailableCategories(docs) ==
    <<sAll>>
      \o Distinct(SelectSeq(MapCategory(docs), LAMBDA category : ~Falsy(category)))
      \o <<sUncategorized>>

getAvailableTags(docs) == Distinct(FlatMapTags(docs))

-----------------------------------------------------------------------------
(* App handlers, App.tsx:138-158, and the Sidebar handlers, Sidebar.tsx:48-115 *)

\* setDocuments(prevDocs => [newDocument, ...prevDocs])
Prepend(newDocument, prevDocs) == <<newDocument>> \o prevDocs

HasId(docs, id) == \E i \in 1..Len(docs) : docs[i].id = id

\* handleSaveArticle(newDocument): the Editor hands over the saved article
HandleSaveArticle(newDocument) ==
    /\ documents' = EffectOnCollection(Prepend(newDocument, documents), currentSection)
    /\ isEditorVisible' = FALSE
    /\ UNCHANGED <<currentSection, searchQuery, filters>>
    /\ UNCHANGED <<hostVars, modalVars, svcVars, histVars>>
    /\ UNCHANGED <<loadVars, viewVars, ops, editor, saving>>
    /\ FilterEffect

\* handleUpload(newDocument): the UploadModal hands over the created document
HandleUpload(newDocument) ==
    /\ documents' = EffectOnCollection(Prepend(newDocument, documents), currentSection)
    /\ isUploadModalVisible' = FALSE
    /\ UNCHANGED <<currentSection, searchQuery, filters>>
    /\ UNCHANGED <<hostVars, restVars, svcVars, histVars>>
    /\ UNCHANGED <<title, selectedFile, backgroundColor, isUploading, modalError>>
    /\ FilterEffect

\* Navbar: setCurrentSection(section)
SetCurrentSection(section) ==
    /\ currentSection' = section
    /\ documents' = EffectOnCollection(documents, section)
    /\ UNCHANGED <<searchQuery, filters>>
    /\ UNCHANGED <<hostVars, restVars, modalVars, svcVars, histVars>>
    /\ FilterEffect

\* handleSearch(query)
HandleSearch(query) ==
    /\ searchQuery' = query
    /\ documents' = EffectOnCollection(documents, currentSection)
    /\ UNCHANGED <<currentSection, filters>>
    /\ UNCHANGED <<hostVars, restVars, modalVars, svcVars, histVars>>
    /\ FilterEffect

Without(seq, x) == SelectSeq(seq, LAMBDA e : e # x)

\* a checkbox change that leaves "all" selected beside the id checked
ToggleSelectionKeepingAll(prev, id, checked, allId) ==
    IF id = allId THEN (IF checked THEN <<allId>> ELSE <<>>)
    ELSE IF checked THEN Append(prev, id)
    ELSE Without(prev, id)

\* the new value of a list of selected ids after a checkbox change
ToggleSelection(prev, id, checked, allId) ==
    IF id = allId THEN (IF checked THEN <<allId>> ELSE <<>>)
    ELSE IF checked THEN Append(Without(prev, allId), id)
    ELSE Without(Without(prev, allId), id)

SetFilters(f) ==
    /\ filters' = f
    /\ documents' = EffectOnCollection(documents, currentSection)
    /\ UNCHANGED <<currentSection, searchQuery>>
    /\ UNCHANGED <<hostVars, restVars, modalVars, svcVars, histVars>>
    /\ FilterEffect

\* handleTypeChange(typeId, checked); the checkbox shows includes(typeId), so the
\* change event carries the opposite value
HandleTypeChange(typeId, checked) ==
    /\ checked = ~Contains(filters.types, typeId)
    /\ SetFilters([filters EXCEPT
                     !.types = ToggleSelection(filters.types, typeId, checked, "all")])

\* handleCategoryChange(category, checked), for a category the sidebar lists
HandleCategoryChange(category, checked) ==
    /\ Contains(getAvailableCategories(documents), category)
    /\ checked = ~Contains(filters.categories, category)
    /\ SetFilters([filters EXCEPT
                     !.categories =
                        ToggleSelection(filters.categories, category, checked, sAll)])

\* handleTimeChange(timeId)
HandleTimeChange(timeId) ==
    SetFilters([filters EXCEPT !.timeframe = timeId])

\* handleTagClick(tag), for one of the first 8 available tags, which the sidebar
\* lists
HandleTagClick(tag) ==
    /\ Contains(Slice0(getAvailableTags(documents), 8), tag)
    /\ SetFilters([filters EXCEPT
                     !.tags = IF Contains(filters.tags, tag)
                              THEN Without(filters.tags, tag)
                              ELSE Append(filters.tags, tag)])

\* "Clear all filters", shown while some filter is set
ClearAllFilters ==
    /\ \/ Len(filters.types) > 0
       \/ Len(filters.categories) > 0
       \/ filters.timeframe # "all"
       \/ Len(filters.tags) > 0
    /\ SetFilters(DefaultFilters)

\* the page under the overlays (Editor, UploadModal and DocumentViewer are
\* "fixed inset-0 z-50") can be clicked while none of them is shown
NoOverlay == ~isViewerOpen /\ ~isUploadModalVisible /\ ~isEditorVisible

-----------------------------------------------------------------------------
(* UploadModal (part_000) and uploadFile (documentService.ts:259-337) *)

\* Maximum file size in bytes (10MB)
MAX_FILE_SIZE == 10 * 1024 * 1024

sMimePdf      == <<"a","p","p","l","i","c","a","t","i","o","n","/","p","d","f">>
sMimePng      == <<"i","m","a","g","e","/","p","n","g">>
sMimeMarkdown == <<"t","e","x","t","/","m","a","r","k","d","o","w","n">>
sNamePdf      == <<"a",".","p","d","f">>
sNamePng      == <<"b",".","p","n","g">>
sNameMd       == <<"n",".","m","d">>
sPdf          == <<"p","d","f">>
sDoc          == <<"d","o","c">>
sImage        == <<"i","m","a","g","e">>
sMarkdown     == <<"m","a","r","k","d","o","w","n">>
sText         == <<"t","e","x","t">>
sDotMd        == <<".","m","d">>
sDotMarkdown  == <<".","m","a","r","k","d","o","w","n">>
sDotTxt       == <<".","t","x","t">>
sDotJson      == <<".","j","s","o","n">>

\* error messages: one-element tuples, so that they compare with Null
ErrSizeLimit     == <<"File exceeds the 10MB limit">>
ErrRequired      == <<"Title and file are required">>
ErrUploading     == <<"Error uploading file">>
ErrCreatingRecord == <<"Error creating document record">>

NoFile   == [type |-> Null, name |-> Null, size |-> 0]
UplIdle  == [pc |-> "idle"]
NoUpload == [done |-> FALSE]

\* the useState values of UploadModal, no upload in flight
FormInit ==
    /\ title = <<>>
    /\ selectedFile = NoFile
    /\ backgroundColor = ColorDefault
    /\ isUploading = FALSE
    /\ modalError = Null
    /\ isUploadModalVisible = FALSE
    /\ upl = UplIdle
    /\ offered = NoFile
    /\ colorPicked = FALSE
    /\ lastUpload = NoUpload

\* the form over an empty store
ModalInit ==
    /\ FormInit
    /\ storageBlobs = {}
    /\ dbRows = <<>>

IsSpace(c) == c = " "

\* String.prototype.trim
RECURSIVE TrimStart(_)
TrimStart(s) ==
    IF s # <<>> /\ IsSpace(Head(s)) THEN TrimStart(Tail(s)) ELSE s

RECURSIVE TrimEnd(_)
TrimEnd(s) ==
    IF s # <<>> /\ IsSpace(s[Len(s)]) THEN TrimEnd(SubSeq(s, 1, Len(s) - 1)) ELSE s

Trim(s) == TrimEnd(TrimStart(s))

\* name.split('.').pop(): what follows the last dot, the whole name without one
RECURSIVE LastSegment(_)
LastSegment(s) ==
    IF ~Contains(s, ".") THEN s
    ELSE LastSegment(Tail(s))

\* uploadFile, lines 262-284: the document type of the file
UploadType(file) ==
    IF Includes(file.type, sPdf) THEN "pdf"
    ELSE IF Includes(file.type, sDoc) THEN "doc"
    ELSE IF Includes(file.type, sImage) THEN "image"
    ELSE IF \/ Includes(file.type, sMarkdown)
            \/ EndsWith(file.name, sDotMd)
            \/ EndsWith(file.name, sDotMarkdown) THEN "markdown"
    ELSE IF \/ Includes(file.type, sText)
            \/ EndsWith(file.name, sDotTxt)
            \/ EndsWith(file.name, sDotJson) THEN "text"
    ELSE "other"

\* the default colour of each branch of lines 262-284
TypeColor(type) ==
    CASE type = "pdf"      -> ColorPdf
      [] type = "doc"      -> ColorDoc
      [] type = "image"    -> ColorImage
      [] type = "markdown" -> ColorMarkdown
      [] type = "text"     -> ColorText
      [] OTHER             -> ColorDefault

\* uploadFile, lines 263-283: params.backgroundColor || <colour of the type>
UploadColor(params) ==
    OrElse(params.backgroundColor, TypeColor(UploadType(params.file)))

\* uploadFile, lines 287-289: `${Date.now()}_${random}.${fileExt}`
UploadPath(file, rnd) == <<"t", rnd, ".">> \o LastSegment(file.name)

\* App.handleUploadFile
OpenUploadModal ==
    /\ NoOverlay
    /\ isUploadModalVisible' = TRUE
    /\ offered' = NoFile
    /\ UNCHANGED <<title, selectedFile, backgroundColor, isUploading, modalError>>
    /\ UNCHANGED <<appVars, hostVars, restVars, svcVars, colorPicked, lastUpload>>

\* the title input, disabled while uploading
SetTitle(t) ==
    /\ isUploadModalVisible /\ ~isUploading
    /\ title' = t
    /\ offered' = NoFile
    /\ UNCHANGED <<selectedFile, backgroundColor, isUploading, modalError,
                   isUploadModalVisible>>
    /\ UNCHANGED <<appVars, hostVars, restVars, svcVars, colorPicked, lastUpload>>

\* handleColorSelect(color)
HandleColorSelect(color) ==
    /\ isUploadModalVisible
    /\ backgroundColor' = color
    /\ colorPicked' = TRUE
    /\ offered' = NoFile
    /\ UNCHANGED <<title, selectedFile, isUploading, modalError, isUploadModalVisible>>
    /\ UNCHANGED <<appVars, hostVars, restVars, svcVars, lastUpload>>

\* onDrop(acceptedFiles), lines 66-76
OnDrop(acceptedFiles) ==
    IF Len(acceptedFiles) > 0
    THEN LET file == acceptedFiles[1]
         IN  IF file.size > MAX_FILE_SIZE
             THEN /\ modalError' = ErrSizeLimit
                  /\ UNCHANGED selectedFile
             ELSE /\ selectedFile' = file
                  /\ modalError' = Null
    ELSE UNCHANGED <<selectedFile, modalError>>

\* a file is dropped on (or chosen in) the dropzone, lines 78-92: react-dropzone
\* hands onDrop the files that satisfy maxSize and reports the others as
\* rejections, which the component does not read
DropFile(file) ==
    /\ isUploadModalVisible /\ ~isUploading
    /\ offered' = file
    /\ OnDrop(IF file.size <= MAX_FILE_SIZE THEN <<file>> ELSE <<>>)
    /\ UNCHANGED <<title, backgroundColor, isUploading, isUploadModalVisible>>
    /\ UNCHANGED <<appVars, hostVars, restVars, svcVars, colorPicked, lastUpload>>

\* the "Remove" button under the selected file, lines 243-254
RemoveFile ==
    /\ isUploadModalVisible /\ ~isUploading
    /\ selectedFile # NoFile
    /\ selectedFile' = NoFile
    /\ offered' = NoFile
    /\ UNCHANGED <<title, backgroundColor, isUploading, modalError,
                   isUploadModalVisible>>
    /\ UNCHANGED <<appVars, hostVars, restVars, svcVars, colorPicked, lastUpload>>

\* resetForm, lines 45-54
ResetForm ==
    /\ title' = <<>>
    /\ selectedFile' = NoFile
    /\ backgroundColor' = ColorDefault
    /\ modalError' = Null
    /\ colorPicked' = FALSE
    /\ offered' = NoFile

\* handleClose (Cancel and the X button, disabled while uploading)
HandleClose ==
    /\ isUploadModalVisible /\ ~isUploading
    /\ ResetForm
    /\ isUploadModalVisible' = FALSE
    /\ UNCHANGED <<isUploading, lastUpload>>
    /\ UNCHANGED <<appVars, hostVars, restVars, svcVars>>

\* handleSubmit, lines 94-111, up to the first await inside uploadFile (line 292);
\* the Upload button is disabled without a title or a file and while uploading.
\* The category and tags inputs of the form are left blank.
HandleSubmit(rnd) ==
    /\ isUploadModalVisible /\ ~isUploading
    /\ ~Falsy(title) /\ selectedFile # NoFile
    /\ Cardinality({i \in 1..Len(dbRows) : dbRows[i].type # "article"}) < MaxUploads
    /\ offered' = NoFile
    /\ IF Falsy(Trim(title)) \/ selectedFile = NoFile
       THEN /\ modalError' = ErrRequired
            /\ UNCHANGED <<isUploading, upl>>
       ELSE LET params == [ file            |-> selectedFile,
                            title           |-> Trim(title),
                            category        |-> Null,
                            tags            |-> <<>>,
                            backgroundColor |-> backgroundColor ]
            IN  /\ isUploading' = TRUE
                /\ modalError' = Null
                /\ upl' = [ pc              |-> "storage",
                            params          |-> params,
                            type            |-> UploadType(params.file),
                            backgroundColor |-> UploadColor(params),
                            filePath        |-> UploadPath(params.file, rnd),
                            picked          |-> colorPicked ]
    /\ UNCHANGED <<title, selectedFile, backgroundColor, isUploadModalVisible>>
    /\ UNCHANGED <<appVars, hostVars, restVars, storageBlobs, dbRows, colorPicked,
                   lastUpload>>

\* handleSubmit, lines 120-124: the catch and finally blocks
SubmitFails(message) ==
    /\ modalError' = message
    /\ isUploading' = FALSE
    /\ upl' = UplIdle
    /\ UNCHANGED <<title, selectedFile, backgroundColor, isUploadModalVisible>>
    /\ UNCHANGED <<appVars, hostVars, restVars, histVars>>

\* storage.upload returns, lines 292-306; upsert: false refuses an existing path
StorageUploadReturns(ok) ==
    /\ upl.pc = "storage"
    /\ IF ok /\ upl.filePath \notin storageBlobs
       THEN /\ storageBlobs' = storageBlobs \cup {upl.filePath}
            /\ upl' = [upl EXCEPT !.pc = "insert"]
            /\ UNCHANGED dbRows
            /\ UNCHANGED <<appVars, hostVars, restVars, modalVars, histVars>>
       ELSE /\ SubmitFails(ErrUploading)
            /\ UNCHANGED <<storageBlobs, dbRows>>

\* docData, lines 309-318, as the store returns it from insert().select().single()
UploadRow(u, id, t) ==
    [ id               |-> id,
      title            |-> u.params.title,
      type             |-> u.type,
      tags             |-> OrElse(u.params.tags, <<>>),
      date_added       |-> t,
      favorite         |-> FALSE,
      category         |-> OrElse(u.params.category, Null),
      background_color |-> u.backgroundColor,
      content          |-> Null,
      storage_path     |-> u.filePath ]

\* the insert succeeds, lines 320-332; handleSubmit goes on with onUpload(result)
\* (App.handleUpload), handleClose() and the finally block, lines 118-124
InsertSucceeds ==
    /\ upl.pc = "insert"
    /\ LET row    == UploadRow(upl, Len(dbRows) + 1, now)
           result == transformSupabaseDocument(row)
       IN  /\ dbRows' = Append(dbRows, row)
           /\ documents' = EffectOnCollection(Prepend(result, documents), currentSection)
           /\ lastUpload' = [ done   |-> TRUE,
                              file   |-> upl.params.file,
                              picked |-> upl.picked,
                              chosen |-> upl.params.backgroundColor,
                              doc    |-> result ]
    /\ ResetForm
    /\ isUploadModalVisible' = FALSE
    /\ isUploading' = FALSE
    /\ upl' = UplIdle
    /\ UNCHANGED <<currentSection, searchQuery, filters, hostVars, restVars,
                   storageBlobs>>
    /\ FilterEffect
\* an uploadFile that throws the record error without asking for the removal of
\* the stored blob
InsertFailsWithoutCleanup ==
    /\ upl.pc = "insert"
    /\ UNCHANGED <<storageBlobs, dbRows>>
    /\ SubmitFails(ErrCreatingRecord)

\* the insert fails, lines 326-328: the removal of the stored blob is requested
InsertFails ==
    /\ upl.pc = "insert"
    /\ upl' = [upl EXCEPT !.pc = "cleanup"]
    /\ UNCHANGED <<appVars, hostVars, restVars, modalVars, storageBlobs, dbRows,
                   histVars>>

\* storage.remove returns (its error, if any, is not read), line 328; line 329
\* throws the record error
CleanupReturns(removed) ==
    /\ upl.pc = "cleanup"
    /\ storageBlobs' = IF removed THEN storageBlobs \ {upl.filePath} ELSE storageBlobs
    /\ UNCHANGED dbRows
    /\ SubmitFails(ErrCreatingRecord)

-----------------------------------------------------------------------------
(* The store as the services see it, and fetchDocuments, App.tsx:122-136 *)

ErrLoading == <<"Error loading documents">>

\* the state of the three variables once the fetch at mount has returned the
\* content of an empty store
Loaded ==
    /\ isLoading = FALSE
    /\ error = Null
    /\ listing = FALSE

\* the state of the three variables while the fetch at mount is in flight
Mounting ==
    /\ isLoading = TRUE
    /\ error = Null
    /\ listing = TRUE

HasRow(rows, id) == \E i \in 1..Len(rows) : rows[i].id = id

\* .eq('id', id).single()
RowOf(rows, id) == rows[CHOOSE i \in 1..Len(rows) : rows[i].id = id]

\* (data || []).map(transformSupabaseDocument)
RECURSIVE MapTransform(_)
MapTransform(rows) ==
    IF rows = <<>> THEN <<>>
    ELSE <<transformSupabaseDocument(Head(rows))>> \o MapTransform(Tail(rows))

\* listDocuments: .order('date_added', { ascending: false })
listDocuments(rows) == SortByDateDesc(MapTransform(rows))

\* the main content shows FilesView, and with it the cards and the viewer, only
\* when nothing is loading and no error is shown, App.tsx:301-323
FilesViewShown == ~isLoading /\ error = Null

\* a listDocuments whose failure empties the collection
ListDocumentsReturnsClearing(ok) ==
    /\ listing
    /\ listing' = FALSE
    /\ isLoading' = FALSE
    /\ IF ok
       THEN /\ documents' = EffectOnCollection(listDocuments(dbRows), currentSection)
            /\ UNCHANGED error
       ELSE /\ error' = ErrLoading
            /\ documents' = <<>>
    /\ UNCHANGED <<currentSection, searchQuery, filters>>
    /\ UNCHANGED <<hostVars, modalVars, svcVars, histVars, viewVars, ops, editorVars>>
    /\ FilterEffect

\* listDocuments returns to fetchDocuments, lines 128-135
ListDocumentsReturns(ok) ==
    /\ listing
    /\ listing' = FALSE
    /\ isLoading' = FALSE
    /\ IF ok
       THEN /\ documents' = EffectOnCollection(listDocuments(dbRows), currentSection)
            /\ UNCHANGED error
       ELSE /\ error' = ErrLoading
            /\ UNCHANGED documents
    /\ UNCHANGED <<currentSection, searchQuery, filters>>
    /\ UNCHANGED <<hostVars, modalVars, svcVars, histVars, viewVars, ops, editorVars>>
    /\ FilterEffect

\* fetchDocuments up to its await, lines 122-128, called by the Retry button of
\* the error message, lines 306-313
RetryFetch ==
    /\ NoOverlay
    /\ ~isLoading /\ error # Null
    /\ isLoading' = TRUE
    /\ error' = Null
    /\ listing' = TRUE
    /\ UNCHANGED <<appVars, hostVars, modalVars, svcVars, histVars>>
    /\ UNCHANGED <<viewVars, ops, editorVars>>

-----------------------------------------------------------------------------
(* Favorite toggle and delete: FilesView.tsx:37-47, App.tsx:160-190,         *)
(* documentService.ts:44-103                                                 *)

\* what the awaited service call gives the handler: true, or an exception
ServiceResult(ok) == IF ok THEN "true" ELSE "thrown"

\* a handler that puts the document whose favorite flag it changed in front
AfterToggleToFront(prevDocs, result, id, isFavorite) ==
    IF result = "true"
    THEN [i \in 1..Len(SelectSeq(prevDocs, LAMBDA doc : doc.id = id)) |->
             [SelectSeq(prevDocs, LAMBDA doc : doc.id = id)[i]
                 EXCEPT !.favorite = isFavorite]]
           \o SelectSeq(prevDocs, LAMBDA doc : doc.id # id)
    ELSE prevDocs

\* a handler that applies the favorite change whatever the service call gave
AfterToggleOptimistic(prevDocs, result, id, isFavorite) ==
    [i \in 1..Len(prevDocs) |->
        IF prevDocs[i].id = id THEN [prevDocs[i] EXCEPT !.favorite = isFavorite]
        ELSE prevDocs[i]]

\* handleToggleFavorite, lines 165-175: the collection after toggleFavorite has
\* returned or thrown
AfterToggle(prevDocs, result, id, isFavorite) ==
    IF result = "true"
    THEN [i \in 1..Len(prevDocs) |->
            IF prevDocs[i].id = id THEN [prevDocs[i] EXCEPT !.favorite = isFavorite]
            ELSE prevDocs[i]]
    ELSE prevDocs

\* handleDeleteDocument, lines 183-189: the collection after deleteDocument has
\* returned or thrown
AfterDelete(prevDocs, result, id) ==
    IF result = "true" THEN SelectSeq(prevDocs, LAMBDA doc : doc.id # id)
    ELSE prevDocs

\* .update({ favorite: isFavorite }).eq('id', id)
UpdateFavorite(rows, id, isFavorite) ==
    [i \in 1..Len(rows) |->
        IF rows[i].id = id THEN [rows[i] EXCEPT !.favorite = isFavorite] ELSE rows[i]]

\* .delete().eq('id', id)
DeleteRow(rows, id) == SelectSeq(rows, LAMBDA r : r.id # id)

\* one more invocation, at its first await
StartOp(op) ==
    /\ Len(ops) < MaxOps
    /\ ops' = Append(ops, op)
    /\ UNCHANGED <<appVars, hostVars, modalVars, svcVars, histVars>>
    /\ UNCHANGED <<loadVars, viewVars, editorVars>>

\* handleToggleFavorite(id, isFavorite) up to the await of line 163, which is
\* the await of documentService.ts:46
HandleToggleFavorite(id, isFavorite) ==
    StartOp([ kind |-> "toggle", id |-> id, isFavorite |-> isFavorite,
              pc |-> "update", storage_path |-> Null, removal |-> "none",
              result |-> "none" ])

\* handleDeleteDocument(id) up to the await of line 181, which is the await of
\* documentService.ts:66
HandleDeleteDocument(id) ==
    StartOp([ kind |-> "delete", id |-> id, isFavorite |-> FALSE,
              pc |-> "select", storage_path |-> Null, removal |-> "none",
              result |-> "none" ])

\* FilesView.handleToggleFavorite: the heart button of a card
ClickFavorite(document) ==
    /\ NoOverlay /\ FilesViewShown
    /\ Contains(filteredDocuments, document)
    /\ HandleToggleFavorite(document.id, ~document.favorite)

\* FilesView.handleDelete: the bin button of a card, the question confirmed
ClickDelete(document) ==
    /\ NoOverlay /\ FilesViewShown
    /\ Contains(filteredDocuments, document)
    /\ HandleDeleteDocument(document.id)

\* the invocation i returns to its handler with the result of the service call
Returned(i, result) == [ops EXCEPT ![i].pc = "done", ![i].result = result]

\* toggleFavorite: the update returns, lines 51-59, and the handler goes on,
\* App.tsx:165-175
UpdateReturns(i, ok) ==
    /\ ops[i].pc = "update"
    /\ dbRows' = IF ok THEN UpdateFavorite(dbRows, ops[i].id, ops[i].isFavorite)
                 ELSE dbRows
    /\ ops' = Returned(i, ServiceResult(ok))
    /\ LET docs == AfterToggle(documents, ServiceResult(ok), ops[i].id,
                               ops[i].isFavorite)
       IN  documents' = IF ok THEN EffectOnCollection(docs, currentSection) ELSE docs
    /\ UNCHANGED <<currentSection, searchQuery, filters>>
    /\ UNCHANGED <<hostVars, modalVars, upl, storageBlobs, histVars>>
    /\ UNCHANGED <<loadVars, viewVars, editorVars>>
    /\ FilterEffect

\* deleteDocument: the select of the storage path returns, lines 66-77; single()
\* reports an error when no row has the id
SelectReturns(i, ok) ==
    /\ ops[i].pc = "select"
    /\ IF ok /\ HasRow(dbRows, ops[i].id)
       THEN LET path == RowOf(dbRows, ops[i].id).storage_path
            IN  ops' = [ops EXCEPT ![i].storage_path = path,
                                   ![i].pc = IF Falsy(path) THEN "delete" ELSE "remove"]
       ELSE ops' = Returned(i, "thrown")
    /\ UNCHANGED <<appVars, hostVars, modalVars, svcVars, histVars>>
    /\ UNCHANGED <<loadVars, viewVars, editorVars>>

\* a deleteDocument that gives up when the blob cannot be removed
RemoveReturnsOrThrows(i, ok) ==
    /\ ops[i].pc = "remove"
    /\ storageBlobs' = IF ok THEN storageBlobs \ {ops[i].storage_path} ELSE storageBlobs
    /\ ops' = IF ok THEN [ops EXCEPT ![i].removal = "ok", ![i].pc = "delete"]
              ELSE [ops EXCEPT ![i].removal = "error", ![i].pc = "done",
                               ![i].result = "thrown"]
    /\ UNCHANGED <<appVars, hostVars, modalVars, upl, dbRows, histVars>>
    /\ UNCHANGED <<loadVars, viewVars, editorVars>>

\* deleteDocument: storage.remove returns, lines 78-86; its error is logged
RemoveReturns(i, ok) ==
    /\ ops[i].pc = "remove"
    /\ storageBlobs' = IF ok THEN storageBlobs \ {ops[i].storage_path} ELSE storageBlobs
    /\ ops' = [ops EXCEPT ![i].removal = IF ok THEN "ok" ELSE "error",
                          ![i].pc = "delete"]
    /\ UNCHANGED <<appVars, hostVars, modalVars, upl, dbRows, histVars>>
    /\ UNCHANGED <<loadVars, viewVars, editorVars>>

\* deleteDocument: the delete of the record returns, lines 89-102, and the
\* handler goes on, App.tsx:183-189
DeleteReturns(i, ok) ==
    /\ ops[i].pc = "delete"
    /\ dbRows' = IF ok THEN DeleteRow(dbRows, ops[i].id) ELSE dbRows
    /\ ops' = Returned(i, ServiceResult(ok))
    /\ LET docs == AfterDelete(documents, ServiceResult(ok), ops[i].id)
       IN  documents' = IF ok THEN EffectOnCollection(docs, currentSection) ELSE docs
    /\ UNCHANGED <<currentSection, searchQuery, filters>>
    /\ UNCHANGED <<hostVars, modalVars, upl, storageBlobs, histVars>>
    /\ UNCHANGED <<loadVars, viewVars, editorVars>>
    /\ FilterEffect

-----------------------------------------------------------------------------
(* FilesView.tsx:24-35 and DocumentViewer (part_002) *)

sMimeJpeg    == <<"i","m","a","g","e","/","j","p","e","g">>
sMimePlain   == <<"t","e","x","t","/","p","l","a","i","n">>
sMimeOctet   == <<"a","p","p","l","i","c","a","t","i","o","n","/",
                  "o","c","t","e","t","-","s","t","r","e","a","m">>
sUrlBase     == <<"h","t","t","p","s",":","/","/","s","/">>

ErrLoadingDocument == <<"Error loading document">>

\* selectedDocument = null
NoDocument == [id |-> 0]

\* the useState values of DocumentViewer, lines 22-29; numPages = null is 0
ViewerInit ==
    [ previewUrl  |-> Null,
      downloadUrl |-> Null,
      fileContent |-> Null,
      contentType |-> <<>>,
      isLoading   |-> FALSE,
      error       |-> Null,
      numPages    |-> 0,
      pageNumber  |-> 1 ]

\* resetState, lines 83-93: isLoading is not among the values it resets
ResetState(v) ==
    [v EXCEPT !.previewUrl = Null, !.downloadUrl = Null, !.fileContent = Null,
              !.contentType = <<>>, !.error = Null,
              !.numPages = 0, !.pageNumber = 1]

\* the type of a document as the string on which includes() is called
TypeString(type) ==
    CASE type = "pdf"      -> sPdf
      [] type = "doc"      -> sDoc
      [] type = "image"    -> sImage
      [] type = "markdown" -> sMarkdown
      [] type = "text"     -> sText
      [] type = "article"  -> <<"a","r","t","i","c","l","e">>
      [] OTHER             -> <<"o","t","h","e","r">>

\* document.storagePath?.endsWith(suffix)
PathEndsWith(document, suffix) ==
    document.storagePath # Null /\ EndsWith(document.storagePath, suffix)

\* getPublicUrl(storage_path).publicUrl
PublicUrl(path) == sUrlBase \o path

\* what fetch(url) then response.text() give for a stored blob
BlobText(url) == <<"text of">> \o url

\* previewDocument, lines 183-193: the content type of the row's type
PreviewContentType(type) ==
    CASE type = "pdf"      -> sMimePdf
      [] type = "image"    -> sMimeJpeg
      [] type = "markdown" -> sMimeMarkdown
      [] type = "text"     -> sMimePlain
      [] OTHER             -> sMimeOctet

\* previewDocument, lines 195-204
previewDocument(row) ==
    [ url         |-> IF Falsy(row.storage_path) THEN <<>>
                      ELSE PublicUrl(row.storage_path),
      contentType |-> PreviewContentType(row.type) ]

\* loadDocument, lines 134-166: the content type set for a non-article document
DispatchContentType(document, previewResult) ==
    IF document.type = "pdf" THEN sMimePdf
    ELSE IF document.type = "image" THEN sMimeJpeg
    ELSE IF \/ Includes(TypeString(document.type), sMarkdown)
            \/ PathEndsWith(document, sDotMd) THEN sMimeMarkdown
    ELSE IF \/ Includes(TypeString(document.type), sText)
            \/ PathEndsWith(document, sDotTxt)
            \/ PathEndsWith(document, sDotJson) THEN sMimePlain
    ELSE OrElse(previewResult.contentType, sMimeOctet)

\* loadDocument, lines 138-163: the branches that go on to fetch the raw text
DispatchFetches(document) ==
    /\ document.type # "pdf"
    /\ document.type # "image"
    /\ \/ Includes(TypeString(document.type), sMarkdown)
       \/ PathEndsWith(document, sDotMd)
       \/ Includes(TypeString(document.type), sText)
       \/ PathEndsWith(document, sDotTxt)
       \/ PathEndsWith(document, sDotJson)

\* renderContent, lines 275-421: the branch that is rendered
renderContent(v, document) ==
    IF document = NoDocument THEN "none"
    ELSE IF v.isLoading THEN "loading"
    ELSE IF ~Falsy(v.error) THEN "error"
    ELSE IF ~Falsy(v.fileContent)
         THEN (IF v.contentType = sMimeMarkdown THEN "markdown" ELSE "text")
    ELSE IF ~Falsy(v.previewUrl) /\ document.type = "image" THEN "image"
    ELSE IF ~Falsy(v.previewUrl) /\ document.type = "pdf" THEN "pdf"
    ELSE "unsupported"

\* loadDocument, lines 95-105 and 121: up to its first await.  The record of the
\* invocation keeps the document of its closure, its position, and, as history,
\* whether every earlier invocation had returned, the URL of its preview result,
\* the content type it set, whether it went on to fetch the raw text, and what
\* the viewer rendered when it returned
LoadDocument(document) ==
    /\ viewer' = [viewer EXCEPT !.isLoading = TRUE, !.error = Null]
    /\ loads' = Append(loads,
          [ document    |-> document,
            pc          |-> IF document.type = "article" THEN "content" ELSE "download",
            alone       |-> \A k \in 1..Len(loads) : loads[k].pc = "done",
            url         |-> Null,
            contentType |-> Null,
            fetched     |-> FALSE,
            rendered    |-> "none" ])

\* handleOpenDocument(document): a card is clicked; the effect of lines 59-65
\* then calls loadDocument
HandleOpenDocument(document) ==
    /\ NoOverlay /\ FilesViewShown
    /\ Contains(filteredDocuments, document)
    /\ Len(loads) < MaxLoads
    /\ selectedDocument' = document
    /\ isViewerOpen' = TRUE
    /\ LoadDocument(document)
    /\ UNCHANGED <<appVars, hostVars, modalVars, svcVars, histVars>>
    /\ UNCHANGED <<loadVars, ops, editorVars>>

\* handleCloseViewer: the X button; the effect of lines 59-65 then calls
\* resetState
HandleCloseViewer ==
    /\ isViewerOpen
    /\ isViewerOpen' = FALSE
    /\ selectedDocument' = NoDocument
    /\ viewer' = ResetState(viewer)
    /\ UNCHANGED loads
    /\ UNCHANGED <<appVars, hostVars, modalVars, svcVars, histVars>>
    /\ UNCHANGED <<loadVars, ops, editorVars>>

\* the Retry button of the error message, lines 286-297
Retry ==
    /\ isViewerOpen
    /\ renderContent(viewer, selectedDocument) = "error"
    /\ Len(loads) < MaxLoads
    /\ LoadDocument(selectedDocument)
    /\ UNCHANGED <<selectedDocument, isViewerOpen>>
    /\ UNCHANGED <<appVars, hostVars, modalVars, svcVars, histVars>>
    /\ UNCHANGED <<loadVars, ops, editorVars>>

\* the PDF branch of renderContent is shown, lines 346-398
PdfShown == isViewerOpen /\ renderContent(viewer, selectedDocument) = "pdf"

\* the page controls are shown, line 365
PageControlsShown == PdfShown /\ viewer.numPages > 1

\* onDocumentLoadSuccess({ numPages }), lines 190-192: the PDF component has
\* loaded the file of its file prop, which has numPages pages
OnDocumentLoadSuccess(numPages) ==
    /\ PdfShown
    /\ viewer' = [viewer EXCEPT !.numPages = numPages]
    /\ UNCHANGED <<selectedDocument, isViewerOpen, loads>>
    /\ UNCHANGED <<appVars, hostVars, modalVars, svcVars, histVars>>
    /\ UNCHANGED <<loadVars, ops, editorVars>>

\* numPages || 1
OrOne(numPages) == IF numPages = 0 THEN 1 ELSE numPages

\* nextPage, lines 194-198, from its button, lines 381-391, which is disabled on
\* the last page
NextPage ==
    /\ PageControlsShown
    /\ ~(viewer.pageNumber >= viewer.numPages)
    /\ viewer' = IF viewer.pageNumber < OrOne(viewer.numPages)
                 THEN [viewer EXCEPT !.pageNumber = @ + 1]
                 ELSE viewer
    /\ UNCHANGED <<selectedDocument, isViewerOpen, loads>>
    /\ UNCHANGED <<appVars, hostVars, modalVars, svcVars, histVars>>
    /\ UNCHANGED <<loadVars, ops, editorVars>>

\* prevPage, lines 200-204, from its button, lines 367-377, which is disabled on
\* the first page
PrevPage ==
    /\ PageControlsShown
    /\ ~(viewer.pageNumber <= 1)
    /\ viewer' = IF viewer.pageNumber > 1
                 THEN [viewer EXCEPT !.pageNumber = @ - 1]
                 ELSE viewer
    /\ UNCHANGED <<selectedDocument, isViewerOpen, loads>>
    /\ UNCHANGED <<appVars, hostVars, modalVars, svcVars, histVars>>
    /\ UNCHANGED <<loadVars, ops, editorVars>>

\* the invocation i has returned: its finally block has run, and the viewer
\* renders v if it still shows the document of the invocation
LoadReturned(i, v) ==
    [loads EXCEPT ![i].pc = "done",
                  ![i].rendered =
                      IF isViewerOpen /\ selectedDocument.id = loads[i].document.id
                      THEN renderContent(v, selectedDocument)
                      ELSE "none"]

\* loadDocument, lines 170-175: the catch and finally blocks
LoadFails(i) ==
    LET v == [viewer EXCEPT !.error = ErrLoadingDocument, !.isLoading = FALSE]
    IN  /\ viewer' = v
        /\ loads' = LoadReturned(i, v)

\* getArticleContent returns, lines 105-118 (documentService.ts:124-139)
ArticleContentReturns(i, ok) ==
    /\ loads[i].pc = "content"
    /\ LET id == loads[i].document.id
       IN  IF ok /\ HasRow(dbRows, id) /\ RowOf(dbRows, id).type = "article"
           THEN LET v == [viewer EXCEPT
                            !.fileContent = OrElse(RowOf(dbRows, id).content, <<>>),
                            !.contentType = sMimePlain,
                            !.isLoading = FALSE]
                IN  /\ viewer' = v
                    /\ loads' = [LoadReturned(i, v) EXCEPT ![i].contentType = sMimePlain]
           ELSE LoadFails(i)
    /\ UNCHANGED <<selectedDocument, isViewerOpen>>
    /\ UNCHANGED <<appVars, hostVars, modalVars, svcVars, histVars>>
    /\ UNCHANGED <<loadVars, ops, editorVars>>

\* getDocumentDownloadUrl returns, lines 121-125 (documentService.ts:145-167)
DownloadUrlReturns(i, ok) ==
    /\ loads[i].pc = "download"
    /\ LET id == loads[i].document.id
       IN  IF ok /\ HasRow(dbRows, id) /\ ~Falsy(RowOf(dbRows, id).storage_path)
           THEN /\ viewer' = [viewer EXCEPT
                                !.downloadUrl = PublicUrl(RowOf(dbRows, id).storage_path)]
                /\ loads' = [loads EXCEPT ![i].pc = "preview"]
           ELSE LoadFails(i)
    /\ UNCHANGED <<selectedDocument, isViewerOpen>>
    /\ UNCHANGED <<appVars, hostVars, modalVars, svcVars, histVars>>
    /\ UNCHANGED <<loadVars, ops, editorVars>>

\* previewDocument returns, lines 125-166 (documentService.ts:173-208)
PreviewReturns(i, ok) ==
    /\ loads[i].pc = "preview"
    /\ LET document == loads[i].document
       IN  IF ok /\ HasRow(dbRows, document.id)
           THEN LET previewResult == previewDocument(RowOf(dbRows, document.id))
                    type == DispatchContentType(document, previewResult)
                    v    == [viewer EXCEPT !.previewUrl = previewResult.url,
                                           !.contentType = type]
                IN  IF DispatchFetches(document)
                    THEN /\ viewer' = v
                         /\ loads' = [loads EXCEPT ![i].pc = "fetch",
                                                   ![i].url = previewResult.url,
                                                   ![i].contentType = type,
                                                   ![i].fetched = TRUE]
                    ELSE LET w == [v EXCEPT !.isLoading = FALSE]
                         IN  /\ viewer' = w
                             /\ loads' = [LoadReturned(i, w) EXCEPT
                                            ![i].url = previewResult.url,
                                            ![i].contentType = type]
           ELSE LoadFails(i)
    /\ UNCHANGED <<selectedDocument, isViewerOpen>>
    /\ UNCHANGED <<appVars, hostVars, modalVars, svcVars, histVars>>
    /\ UNCHANGED <<loadVars, ops, editorVars>>

\* fetch(previewResult.url) and response.text() return, lines 141-149 and
\* 155-163: a response that is not ok and an exception leave the content unset
FetchReturns(i, ok) ==
    /\ loads[i].pc = "fetch"
    /\ LET v == [viewer EXCEPT
                   !.fileContent = IF ok THEN BlobText(loads[i].url) ELSE @,
                   !.isLoading = FALSE]
       IN  /\ viewer' = v
           /\ loads' = LoadReturned(i, v)
    /\ UNCHANGED <<selectedDocument, isViewerOpen>>
    /\ UNCHANGED <<appVars, hostVars, modalVars, svcVars, histVars>>
    /\ UNCHANGED <<loadVars, ops, editorVars>>

-----------------------------------------------------------------------------
(* Editor.tsx and saveArticle (documentService.ts:220-248) *)

ErrTitleContent == <<"Title and content are required">>
ErrSaving       == <<"Error saving article">>

sBody == <<"t","e","x","t"," ">>

SaveIdle == [pc |-> "idle"]

\* the useState values of Editor, lines 15-21; category, tags and colour are
\* left as they are
EditorInit ==
    [ title     |-> <<>>,
      content   |-> <<>>,
      isSaving  |-> FALSE,
      error     |-> Null ]

\* App.handleAddArticle: "New article" of the add button
HandleAddArticle ==
    /\ NoOverlay
    /\ isEditorVisible' = TRUE
    /\ UNCHANGED <<editor, saving>>
    /\ UNCHANGED <<appVars, hostVars, modalVars, svcVars, histVars>>
    /\ UNCHANGED <<loadVars, viewVars, ops>>

\* the title input, disabled while saving
SetEditorTitle(t) ==
    /\ isEditorVisible /\ ~editor.isSaving
    /\ editor' = [editor EXCEPT !.title = t]
    /\ UNCHANGED <<saving, isEditorVisible>>
    /\ UNCHANGED <<appVars, hostVars, modalVars, svcVars, histVars>>
    /\ UNCHANGED <<loadVars, viewVars, ops>>

\* the content textarea, disabled while saving
SetEditorContent(c) ==
    /\ isEditorVisible /\ ~editor.isSaving
    /\ editor' = [editor EXCEPT !.content = c]
    /\ UNCHANGED <<saving, isEditorVisible>>
    /\ UNCHANGED <<appVars, hostVars, modalVars, svcVars, histVars>>
    /\ UNCHANGED <<loadVars, viewVars, ops>>

\* Editor.handleClose: resetForm and onClose; the X button is disabled while
\* saving
EditorClose ==
    /\ isEditorVisible /\ ~editor.isSaving
    /\ editor' = EditorInit
    /\ isEditorVisible' = FALSE
    /\ UNCHANGED saving
    /\ UNCHANGED <<appVars, hostVars, modalVars, svcVars, histVars>>
    /\ UNCHANGED <<loadVars, viewVars, ops>>
\* a check that reads the fields as typed, blanks included
SaveRejectedUntrimmed(e) == Falsy(e.title) \/ Falsy(e.content)

\* a check that asks for a title only
SaveRejectedWithoutTitle(e) == Falsy(Trim(e.title))

\* handleSave, line 59: !title.trim() || !content.trim()
SaveRejected(e) == Falsy(Trim(e.title)) \/ Falsy(Trim(e.content))

\* handleSave, lines 58-74, up to the await inside saveArticle (line 233); the
\* Save button is disabled while saving
HandleSave ==
    /\ isEditorVisible /\ ~editor.isSaving
    /\ Cardinality({i \in 1..Len(dbRows) : dbRows[i].type = "article"}) < MaxArticles
    /\ IF SaveRejected(editor)
       THEN /\ editor' = [editor EXCEPT !.error = ErrTitleContent]
            /\ UNCHANGED saving
       ELSE /\ editor' = [editor EXCEPT !.isSaving = TRUE, !.error = Null]
            /\ saving' = [ pc     |-> "insert",
                           params |-> [ title           |-> Trim(editor.title),
                                        content         |-> Trim(editor.content),
                                        category        |-> Null,
                                        tags            |-> <<>>,
                                        backgroundColor |-> ColorDefault ] ]
    /\ UNCHANGED isEditorVisible
    /\ UNCHANGED <<appVars, hostVars, modalVars, svcVars, histVars>>
    /\ UNCHANGED <<loadVars, viewVars, ops>>

\* documentData, lines 222-231, as the store returns it from
\* insert().select().single(): a column that was not given is null
ArticleRow(params, id, t) ==
    [ id               |-> id,
      title            |-> params.title,
      type             |-> "article",
      tags             |-> OrElse(params.tags, <<>>),
      date_added       |-> t,
      favorite         |-> FALSE,
      category         |-> OrElse(params.category, Null),
      background_color |-> OrElse(params.backgroundColor, ColorDefault),
      content          |-> params.content,
      storage_path     |-> Null ]

\* the id the store gives the next row
NextId(rows) == Len(rows) + 1

\* the insert succeeds, lines 233-243; handleSave goes on with onSave(result)
\* (App.handleSaveArticle), resetForm(), onClose() and the finally block,
\* Editor.tsx:76-83
SaveArticleSucceeds ==
    /\ saving.pc = "insert"
    /\ LET row    == ArticleRow(saving.params, NextId(dbRows), now)
           result == transformSupabaseDocument(row)
       IN  /\ dbRows' = Append(dbRows, row)
           /\ documents' = EffectOnCollection(Prepend(result, documents), currentSection)
    /\ isEditorVisible' = FALSE
    /\ editor' = EditorInit
    /\ saving' = SaveIdle
    /\ UNCHANGED <<currentSection, searchQuery, filters>>
    /\ UNCHANGED <<hostVars, modalVars, upl, storageBlobs, histVars>>
    /\ UNCHANGED <<loadVars, viewVars, ops>>
    /\ FilterEffect

\* the insert fails, lines 239-246; handleSave shows the message, Editor.tsx:79-83
SaveArticleFails ==
    /\ saving.pc = "insert"
    /\ editor' = [editor EXCEPT !.error = ErrSaving, !.isSaving = FALSE]
    /\ saving' = SaveIdle
    /\ UNCHANGED isEditorVisible
    /\ UNCHANGED <<appVars, hostVars, modalVars, svcVars, histVars>>
    /\ UNCHANGED <<loadVars, viewVars, ops>>

\* the state of the variables of this section after construction
RestInit ==
    /\ selectedDocument = NoDocument
    /\ isViewerOpen = FALSE
    /\ viewer = ViewerInit
    /\ loads = <<>>
    /\ ops = <<>>
    /\ editor = EditorInit
    /\ saving = SaveIdle
    /\ isEditorVisible = FALSE

-----------------------------------------------------------------------------
(* SpecFilter: the filter engine over a few documents that differ in every   *)
(* field the filter reads, driven by every filter control                   *)

\* the instant the session runs at: one hour past a UTC midnight
Epoch == 40 * HoursPerDay + 1

\* the host's zone: local time is 01:00 or 23:00 at Epoch
TimeZones == {0, 22}

FilterRows ==
    { Row(1, sTitlePdf,  "article", <<sTagA, sTagB>>, Epoch - 25, TRUE,  Null),
      Row(2, sTitlePlan, "pdf",     <<sTagB, sTagC>>, Epoch,      FALSE, sUncategorized),
      Row(3, sTitlePlan, "image",   Null,             Epoch - (8 * 24), FALSE, sWork),
      Row(4, sTitlePlan, "pdf",     <<sDesign>>,      Epoch - (31 * 24), TRUE, sAll) }

Queries         == {<<>>, sPdfQuery}
TypeChoices     == {"all", "pdf"}
CategoryChoices == {sAll, sUncategorized, sWork}
TagChoices      == {sTagB, sTagC}

AppInit ==
    /\ documents = <<>>
    /\ filteredDocuments = <<>>
    /\ currentSection = "files"
    /\ searchQuery = <<>>
    /\ filters = DefaultFilters

InitFilter ==
    /\ AppInit
    /\ now = Epoch
    /\ tz \in TimeZones
    /\ ModalInit
    /\ Loaded
    /\ RestInit

AddArticle ==
    \E r \in FilterRows :
        /\ r.type = "article"
        /\ Len(documents) < MaxDocs
        /\ ~HasId(documents, r.id)
        /\ HandleSaveArticle(transformSupabaseDocument(r))

AddFile ==
    \E r \in FilterRows :
        /\ r.type # "article"
        /\ Len(documents) < MaxDocs
        /\ ~HasId(documents, r.id)
        /\ HandleUpload(transformSupabaseDocument(r))

ChangeSection  == \E s \in Sections : SetCurrentSection(s)
ChangeSearch   == \E q \in Queries : HandleSearch(q)
ChangeType     == \E t \in TypeChoices, c \in BOOLEAN : HandleTypeChange(t, c)
ChangeCategory == \E k \in CategoryChoices, c \in BOOLEAN : HandleCategoryChange(k, c)
ChangeTime     == \E t \in Timeframes : HandleTimeChange(t)
ChangeTag      == \E t \in TagChoices : HandleTagClick(t)

NextFilter ==
    \/ AddArticle
    \/ AddFile
    \/ ChangeSection
    \/ ChangeSearch
    \/ ChangeType
    \/ ChangeCategory
    \/ ChangeTime
    \/ ChangeTag
    \/ ClearAllFilters

SpecFilter == InitFilter /\ [][NextFilter]_vars

-----------------------------------------------------------------------------
(* SpecUpload: the upload form, the upload service and the store *)

UploadFiles ==
    { [type |-> sMimePdf,      name |-> sNamePdf, size |-> 1024],
      [type |-> sMimePdf,      name |-> sNamePdf, size |-> 11 * 1024 * 1024],
      [type |-> sMimePng,      name |-> sNamePng, size |-> MAX_FILE_SIZE],
      [type |-> sMimeMarkdown, name |-> sNameMd,  size |-> MAX_FILE_SIZE + 1] }

UploadTitles  == {<<>>, sBlank, sTitlePlan}
PickerColors  == {ColorGray, ColorDefault}
RandomNames   == {"r", "s"}

InitUpload ==
    /\ AppInit
    /\ now = Epoch
    /\ tz = 0
    /\ ModalInit
    /\ Loaded
    /\ RestInit

TypeTitle       == \E t \in UploadTitles : SetTitle(t)
PickColor       == \E c \in PickerColors : HandleColorSelect(c)
OfferFile       == \E f \in UploadFiles : DropFile(f)
Submit          == \E rnd \in RandomNames : HandleSubmit(rnd)
StorageResponds == \E ok \in BOOLEAN : StorageUploadReturns(ok)
CleanupResponds == \E removed \in BOOLEAN : CleanupReturns(removed)

NextUpload ==
    \/ OpenUploadModal
    \/ TypeTitle
    \/ PickColor
    \/ OfferFile
    \/ RemoveFile
    \/ HandleClose
    \/ Submit
    \/ StorageResponds
    \/ InsertSucceeds
    \/ InsertFails
    \/ CleanupResponds

SpecUpload == InitUpload /\ [][NextUpload]_vars

-----------------------------------------------------------------------------
(* SpecLibrary: a collection that grows past the limit of the recent section, *)
(* browsed by section, search and tag                                        *)

\* the rows the store returns for the documents created in this session: the id
\* is fresh, the date is the one the creating client stamped
LibraryRows(id) ==
    { Row(id, sTitlePdf,  "article", <<sDesign, sTagA>>, Epoch - 48, TRUE,  Null),
      Row(id, sTitlePlan, "pdf",     <<sDesign>>,        Epoch - 24, FALSE, sWork),
      Row(id, sTitlePlan, "image",   <<sTagB, sDesign>>, Epoch,      FALSE, sWork) }

InitLibrary ==
    /\ AppInit
    /\ now = Epoch
    /\ tz = 0
    /\ ModalInit
    /\ Loaded
    /\ RestInit

CreateArticle ==
    \E r \in LibraryRows(Len(documents) + 1) :
        /\ r.type = "article"
        /\ Len(documents) < MaxLibrary
        /\ HandleSaveArticle(transformSupabaseDocument(r))

CreateFile ==
    \E r \in LibraryRows(Len(documents) + 1) :
        /\ r.type # "article"
        /\ Len(documents) < MaxLibrary
        /\ HandleUpload(transformSupabaseDocument(r))

NextLibrary ==
    \/ CreateArticle
    \/ CreateFile
    \/ ChangeSection
    \/ ChangeSearch
    \/ ChangeTag

SpecLibrary == InitLibrary /\ [][NextLibrary]_vars

-----------------------------------------------------------------------------
(* SpecViewer: documents of the store opened, closed and opened again in the *)
(* viewer while their loads are in flight                                    *)

\* the row uploadFile creates for a file, as the store keeps it
StoredUpload(file, ttl, rnd, id, t) ==
    LET params == [ file |-> file, title |-> ttl, category |-> Null,
                    tags |-> <<>>, backgroundColor |-> ColorDefault ]
    IN  UploadRow([ params          |-> params,
                    type            |-> UploadType(file),
                    backgroundColor |-> UploadColor(params),
                    filePath        |-> UploadPath(file, rnd) ], id, t)

\* the store when the session starts: an article, an uploaded markdown file, and
\* an uploaded file named n.md whose MIME type names pdf
ViewerRows ==
    << Row(1, sTitlePlan, "article", <<>>, Epoch - 48, FALSE, Null),
       StoredUpload([type |-> sMimeMarkdown, name |-> sNameMd, size |-> 1024],
                    sTitlePlan, "r", 2, Epoch - 24),
       StoredUpload([type |-> sMimePdf, name |-> sNameMd, size |-> 1024],
                    sTitlePdf, "s", 3, Epoch) >>

\* the blobs of the rows
BlobsOf(rows) ==
    {rows[i].storage_path : i \in {k \in 1..Len(rows) : ~Falsy(rows[k].storage_path)}}

InitViewer ==
    /\ AppInit
    /\ now = Epoch
    /\ tz = 0
    /\ FormInit
    /\ dbRows = ViewerRows
    /\ storageBlobs = BlobsOf(ViewerRows)
    /\ Mounting
    /\ RestInit

ListResponds     == \E ok \in BOOLEAN : ListDocumentsReturns(ok)
OpenDocument     ==
    \E i \in 1..Len(filteredDocuments) : HandleOpenDocument(filteredDocuments[i])
ContentResponds  == \E i \in 1..Len(loads), ok \in BOOLEAN : ArticleContentReturns(i, ok)
DownloadResponds == \E i \in 1..Len(loads), ok \in BOOLEAN : DownloadUrlReturns(i, ok)
PreviewResponds  == \E i \in 1..Len(loads), ok \in BOOLEAN : PreviewReturns(i, ok)
TextResponds     == \E i \in 1..Len(loads), ok \in BOOLEAN : FetchReturns(i, ok)

NextViewer ==
    \/ ListResponds
    \/ OpenDocument
    \/ HandleCloseViewer
    \/ Retry
    \/ ContentResponds
    \/ DownloadResponds
    \/ PreviewResponds
    \/ TextResponds

SpecViewer == InitViewer /\ [][NextViewer]_vars

-----------------------------------------------------------------------------
(* SpecStore: favorites toggled and documents deleted from the cards, the    *)
(* store answering each call with success or with an error                   *)

\* the store when the session starts: an article and an uploaded file
StoreRows ==
    << Row(1, sTitlePlan, "article", <<>>, Epoch - 24, FALSE, Null),
       StoredUpload([type |-> sMimePdf, name |-> sNamePdf, size |-> 1024],
                    sTitlePdf, "r", 2, Epoch) >>

InitStore ==
    /\ AppInit
    /\ now = Epoch
    /\ tz = 0
    /\ FormInit
    /\ dbRows = StoreRows
    /\ storageBlobs = BlobsOf(StoreRows)
    /\ Mounting
    /\ RestInit

FavoriteClicked ==
    \E i \in 1..Len(filteredDocuments) : ClickFavorite(filteredDocuments[i])
DeleteClicked ==
    \E i \in 1..Len(filteredDocuments) : ClickDelete(filteredDocuments[i])
UpdateResponds == \E i \in 1..Len(ops), ok \in BOOLEAN : UpdateReturns(i, ok)
SelectResponds == \E i \in 1..Len(ops), ok \in BOOLEAN : SelectReturns(i, ok)
RemoveResponds == \E i \in 1..Len(ops), ok \in BOOLEAN : RemoveReturns(i, ok)
DeleteResponds == \E i \in 1..Len(ops), ok \in BOOLEAN : DeleteReturns(i, ok)

NextStore ==
    \/ ListResponds
    \/ FavoriteClicked
    \/ DeleteClicked
    \/ UpdateResponds
    \/ SelectResponds
    \/ RemoveResponds
    \/ DeleteResponds

SpecStore == InitStore /\ [][NextStore]_vars

-----------------------------------------------------------------------------
(* SpecCreate: articles written in the editor and files uploaded through the *)
(* modal, the store accepting or refusing each of them                       *)

EditorTitles   == {<<>>, sTitlePlan}
EditorContents == {<<>>, sBlank, sBody}
CreatedFiles   == { [type |-> sMimePdf,      name |-> sNamePdf, size |-> 1024],
                    [type |-> sMimeMarkdown, name |-> sNameMd,  size |-> 1024] }

CreatedTitles  == {sBlank, sTitlePdf}

InitCreate ==
    /\ AppInit
    /\ now = Epoch
    /\ tz = 0
    /\ ModalInit
    /\ Loaded
    /\ RestInit

WriteTitle   == \E t \in EditorTitles : SetEditorTitle(t)
WriteContent == \E c \in EditorContents : SetEditorContent(c)
NameUpload   == \E t \in CreatedTitles : SetTitle(t)
ChooseFile   == \E f \in CreatedFiles : DropFile(f)
SubmitUpload == HandleSubmit("r")

NextCreate ==
    \/ HandleAddArticle
    \/ WriteTitle
    \/ WriteContent
    \/ EditorClose
    \/ HandleSave
    \/ SaveArticleSucceeds
    \/ SaveArticleFails
    \/ OpenUploadModal
    \/ NameUpload
    \/ ChooseFile
    \/ HandleClose
    \/ SubmitUpload
    \/ StorageResponds
    \/ InsertSucceeds
    \/ InsertFails
    \/ CleanupResponds

SpecCreate == InitCreate /\ [][NextCreate]_vars

-----------------------------------------------------------------------------
(* SpecStages: a collection of four documents, saved and uploaded one after  *)
(* the other, under every setting of the section, search and filter controls *)

\* the collection after the four rows were created in the order of their ids:
\* each new document is put in front
StagesDocuments ==
    << transformSupabaseDocument(
           Row(4, sTitlePlan, "pdf",     <<sDesign>>,      Epoch - (31 * 24), TRUE, sAll)),
       transformSupabaseDocument(
           Row(3, sTitlePlan, "image",   Null,             Epoch - (8 * 24), FALSE, sWork)),
       transformSupabaseDocument(
           Row(2, sTitlePlan, "pdf",     <<sTagB, sTagC>>, Epoch,      FALSE, sUncategorized)),
       transformSupabaseDocument(
           Row(1, sTitlePdf,  "article", <<sTagA, sTagB>>, Epoch - 25, TRUE,  Null)) >>

InitStages ==
    /\ documents = StagesDocuments
    /\ filteredDocuments = StagesDocuments
    /\ currentSection = "files"
    /\ searchQuery = <<>>
    /\ filters = DefaultFilters
    /\ now = Epoch
    /\ tz \in TimeZones
    /\ ModalInit
    /\ Loaded
    /\ RestInit

NextStages ==
    \/ ChangeSection
    \/ ChangeSearch
    \/ ChangeType
    \/ ChangeCategory
    \/ ChangeTime
    \/ ChangeTag
    \/ ClearAllFilters

SpecStages == InitStages /\ [][NextStages]_vars

-----------------------------------------------------------------------------
(* SpecSearch: the four documents searched by title, tag and category, in    *)
(* either letter case, in every section and with tags and timeframes chosen  *)

sWorkQuery  == <<"W","O","R","K">>
sSigQuery   == <<"S","i","G">>
sNoneQuery  == <<"z","z">>
sPdfUpper   == <<"P","D","F">>

SearchQueries == {<<>>, sPdfQuery, sPdfUpper, sWorkQuery, sSigQuery, sAll, sNoneQuery}

InitSearch ==
    /\ InitStages
    /\ tz = 0

TypeQuery == \E q \in SearchQueries : HandleSearch(q)

NextSearch ==
    \/ TypeQuery
    \/ ChangeSection
    \/ ChangeTime
    \/ ChangeTag
    \/ ClearAllFilters

SpecSearch == InitSearch /\ [][NextSearch]_vars

-----------------------------------------------------------------------------
(* SpecTime: documents dated at and one hour before the limits of the        *)
(* timeframes, in both host zones, under the section, search, type and       *)
(* timeframe controls                                                        *)

\* dates of the documents: now, two hours ago, and for each of the two local
\* midnights (1 and 23 hours ago) the instants 7 and 30 days before it and the
\* hour before each of these
TimeDates ==
    << Epoch, Epoch - 2,
       Epoch - 1 - (7 * 24),  Epoch - 2 - (7 * 24),
       Epoch - 23 - (7 * 24), Epoch - 24 - (7 * 24),
       Epoch - 1 - (30 * 24),  Epoch - 2 - (30 * 24),
       Epoch - 23 - (30 * 24), Epoch - 24 - (30 * 24) >>

\* the collection as the mount fetch returned it
TimeDocuments ==
    listDocuments([i \in 1..Len(TimeDates) |->
        Row(i, IF i % 2 = 0 THEN sTitlePdf ELSE sTitlePlan,
            IF i % 2 = 0 THEN "pdf" ELSE "article", <<>>, TimeDates[i],
            i % 3 = 0, Null)])

InitTime ==
    /\ documents = TimeDocuments
    /\ filteredDocuments = TimeDocuments
    /\ currentSection = "files"
    /\ searchQuery = <<>>
    /\ filters = DefaultFilters
    /\ now = Epoch
    /\ tz \in TimeZones
    /\ ModalInit
    /\ Loaded
    /\ RestInit

NextTime ==
    \/ ChangeTime
    \/ ChangeSection
    \/ ChangeSearch
    \/ ChangeType
    \/ ClearAllFilters

SpecTime == InitTime /\ [][NextTime]_vars

-----------------------------------------------------------------------------
(* SpecRecent: eight documents that are not in date order, two pairs of them *)
(* with equal dates, browsed by section, search, type, tag and timeframe     *)

\* the collection: documents 3 and 4 share the newest date, documents 6 and 7
\* share the date that falls on the limit of the recent section
RecentDocuments ==
    << transformSupabaseDocument(Row(1, sTitlePlan, "article", <<>>, Epoch - 5,  FALSE, Null)),
       transformSupabaseDocument(Row(2, sTitlePdf,  "pdf",     <<sTagB>>, Epoch - 50, TRUE,  Null)),
       transformSupabaseDocument(Row(3, sTitlePlan, "article", <<>>, Epoch,      FALSE, Null)),
       transformSupabaseDocument(Row(4, sTitlePlan, "image",   <<>>, Epoch,      TRUE,  Null)),
       transformSupabaseDocument(Row(5, sTitlePdf,  "pdf",     <<sTagB>>, Epoch - 3,  FALSE, Null)),
       transformSupabaseDocument(Row(6, sTitlePlan, "article", <<>>, Epoch - 10, FALSE, Null)),
       transformSupabaseDocument(Row(7, sTitlePlan, "image",   <<sTagC>>, Epoch - 10, TRUE,  Null)),
       transformSupabaseDocument(Row(8, sTitlePlan, "article", <<>>, Epoch - 1,  FALSE, Null)) >>

InitRecent ==
    /\ documents = RecentDocuments
    /\ filteredDocuments = RecentDocuments
    /\ currentSection = "files"
    /\ searchQuery = <<>>
    /\ filters = DefaultFilters
    /\ now = Epoch
    /\ tz = 0
    /\ ModalInit
    /\ Loaded
    /\ RestInit

NextRecent ==
    \/ ChangeSection
    \/ ChangeSearch
    \/ ChangeType
    \/ ChangeTime
    \/ ChangeTag
    \/ ClearAllFilters

SpecRecent == InitRecent /\ [][NextRecent]_vars

-----------------------------------------------------------------------------
(* SpecFetch: the list fetched at mount and again from the Retry button,     *)
(* answered with the rows or with an error, while an article is written and  *)
(* saved                                                                     *)

\* the store when the session starts: two uploaded files
FetchRows ==
    << StoredUpload([type |-> sMimePdf, name |-> sNamePdf, size |-> 1024],
                    sTitlePdf, "r", 1, Epoch - 24),
       StoredUpload([type |-> sMimePng, name |-> sNamePng, size |-> 1024],
                    sTitlePlan, "s", 2, Epoch) >>

InitFetch ==
    /\ AppInit
    /\ now = Epoch
    /\ tz = 0
    /\ FormInit
    /\ dbRows = FetchRows
    /\ storageBlobs = BlobsOf(FetchRows)
    /\ Mounting
    /\ RestInit

NextFetch ==
    \/ ListResponds
    \/ RetryFetch
    \/ HandleAddArticle
    \/ WriteTitle
    \/ WriteContent
    \/ EditorClose
    \/ HandleSave
    \/ SaveArticleSucceeds
    \/ SaveArticleFails
    \/ ChangeSection

\* the request to the store is answered or fails: a pending promise settles
SpecFetch == InitFetch /\ [][NextFetch]_vars /\ WF_vars(ListResponds)

-----------------------------------------------------------------------------
(* SpecPages: two uploaded PDF files, one of three pages and one of a single *)
(* page, opened, paged through and closed while their loads are answered     *)

\* the store when the session starts
PagesRows ==
    << StoredUpload([type |-> sMimePdf, name |-> sNamePdf, size |-> 1024],
                    sTitlePdf, "r", 1, Epoch - 24),
       StoredUpload([type |-> sMimePdf, name |-> sNamePdf, size |-> 1024],
                    sTitlePlan, "s", 2, Epoch) >>

\* the pages of the longer file
LongPdfPages == 3

\* the number of pages of the PDF file at a URL
PdfPages(url) ==
    IF url = PublicUrl(PagesRows[1].storage_path) THEN LongPdfPages ELSE 1

InitPages ==
    /\ AppInit
    /\ now = Epoch
    /\ tz = 0
    /\ FormInit
    /\ dbRows = PagesRows
    /\ storageBlobs = BlobsOf(PagesRows)
    /\ Mounting
    /\ RestInit

PdfLoads == OnDocumentLoadSuccess(PdfPages(viewer.previewUrl))

NextPages ==
    \/ ListResponds
    \/ OpenDocument
    \/ HandleCloseViewer
    \/ Retry
    \/ DownloadResponds
    \/ PreviewResponds
    \/ PdfLoads
    \/ NextPage
    \/ PrevPage

SpecPages == InitPages /\ [][NextPages]_vars

-----------------------------------------------------------------------------
(* Properties *)

Range(seq) == {seq[i] : i \in 1..Len(seq)}

NoDuplicates(seq) == \A i, j \in 1..Len(seq) : i # j => seq[i] # seq[j]

SortedByDateDesc(docs) ==
    \A i, j \in 1..Len(docs) : i < j => docs[i].dateAdded >= docs[j].dateAdded

\* C1: in section "files" with an empty query and default filter options the
\* filtered list is the document collection itself: the same documents, each
\* once, in the same order.
C1_FilesDefaultIsIdentity ==
    (currentSection = "files" /\ searchQuery = <<>> /\ filters = DefaultFilters)
        => filteredDocuments = documents

\* C1 witness: the default view of a collection of several documents that is
\* not in date order
C1_Witness ==
    /\ currentSection = "files" /\ searchQuery = <<>> /\ filters = DefaultFilters
    /\ Len(documents) >= 3
    /\ ~SortedByDateDesc(documents)
    /\ filteredDocuments = documents

\* C2: filtering the filtered list again, with the same section, query, options
\* and clock, gives the filtered list back.
C2_FilterIdempotent ==
    Filter(filteredDocuments, currentSection, searchQuery, filters, now, tz)
        = filteredDocuments

\* C2 witness: section "recent" over more documents than it shows, out of date
\* order, where the result holds two documents of one date
C2_Witness ==
    /\ currentSection = "recent"
    /\ Len(documents) > 6
    /\ ~SortedByDateDesc(documents)
    /\ \E i, j \in 1..Len(filteredDocuments) :
          i # j /\ filteredDocuments[i].dateAdded = filteredDocuments[j].dateAdded

\* C3: in section "recent" the filtered list has at most 6 documents and is in
\* descending order of dateAdded, whatever the size of the collection.
C3_RecentAtMostSixSorted ==
    currentSection = "recent"
        => /\ Len(filteredDocuments) <= 6
           /\ SortedByDateDesc(filteredDocuments)

\* C3 witness: section "recent" shows 6 of more than 6 documents that are not
\* in date order
C3_Witness ==
    /\ currentSection = "recent"
    /\ Len(documents) > 6
    /\ ~SortedByDateDesc(documents)
    /\ Len(filteredDocuments) = 6

\* the document carries at least one of the selected tags
SharesTag(doc, selected) == Range(doc.tags) \cap Range(selected) # {}

\* C4: with selected tags, only documents that carry at least one selected tag
\* are shown, and when no other stage is switched on every such document is.
C4_TagFilterIsOr ==
    Len(filters.tags) > 0
        => /\ \A i \in 1..Len(filteredDocuments) :
                 SharesTag(filteredDocuments[i], filters.tags)
           /\ ( /\ currentSection = "files" /\ searchQuery = <<>>
                /\ filters.types = <<>> /\ filters.categories = <<>>
                /\ filters.timeframe = "all" )
                => filteredDocuments =
                     SelectSeq(documents, LAMBDA d : SharesTag(d, filters.tags))

\* C4 witness: tags b and c are selected and a document tagged a, b is shown
C4_Witness ==
    /\ Range(filters.tags) = {sTagB, sTagC}
    /\ \E i \in 1..Len(filteredDocuments) :
          filteredDocuments[i].tags = <<sTagA, sTagB>>

\* C5: when the selected categories are exactly "uncategorized", only documents
\* without a category are shown, and when no other stage is switched on every
\* such document is.
C5_UncategorizedOnlyWithoutCategory ==
    filters.categories = <<sUncategorized>>
        => /\ \A i \in 1..Len(filteredDocuments) :
                 filteredDocuments[i].category = <<>>
           /\ ( /\ currentSection = "files" /\ searchQuery = <<>>
                /\ filters.types = <<>> /\ filters.tags = <<>>
                /\ filters.timeframe = "all" )
                => filteredDocuments =
                     SelectSeq(documents, LAMBDA d : d.category = <<>>)

\* the instant of the last local midnight: the one instant of the past 24 hours
\* at which the local clock shows 00:00
LocalMidnight ==
    CHOOSE m \in (now - 23)..now : (m + tz) % 24 = 0

\* C6: with timeframe "today" no document dated exactly 25 hours before the
\* evaluation instant is shown, and every document shown is dated at or after
\* the start of the local day.
C6_TodayExcludes25HoursAgo ==
    filters.timeframe = "today"
        => \A i \in 1..Len(filteredDocuments) :
              /\ filteredDocuments[i].dateAdded # now - 25
              /\ filteredDocuments[i].dateAdded >= LocalMidnight

\* C6 witness: one hour after local midnight, timeframe "today" hides a document
\* dated 25 hours ago and shows one of today
C6_Witness ==
    /\ filters.timeframe = "today"
    /\ now - LocalMidnight = 1
    /\ \E i \in 1..Len(documents) : documents[i].dateAdded = now - 25
    /\ filteredDocuments # <<>>

\* where a tag is first seen: document by document, tag by tag
FirstSeen(tag) ==
    LET di == CHOOSE i \in 1..Len(documents) :
                 /\ tag \in Range(documents[i].tags)
                 /\ \A k \in 1..(i - 1) : tag \notin Range(documents[k].tags)
        ti == CHOOSE i \in 1..Len(documents[di].tags) :
                 /\ documents[di].tags[i] = tag
                 /\ \A k \in 1..(i - 1) : documents[di].tags[k] # tag
    IN  <<di, ti>>

Earlier(p, q) == p[1] < q[1] \/ (p[1] = q[1] /\ p[2] < q[2])

\* C7: availableTags holds each tag of some document exactly once, nothing
\* else, in first-seen order.
C7_AvailableTagsDistinct ==
    LET t == getAvailableTags(documents)
    IN  /\ NoDuplicates(t)
        /\ Range(t) = UNION {Range(documents[i].tags) : i \in 1..Len(documents)}
        /\ \A i, j \in 1..Len(t) : i < j => Earlier(FirstSeen(t[i]), FirstSeen(t[j]))

\* C7 witness: three documents share the tag "design" and other tags occur
C7_Witness ==
    /\ Cardinality({i \in 1..Len(documents) : sDesign \in Range(documents[i].tags)}) >= 3
    /\ Len(getAvailableTags(documents)) >= 3

\* C8: availableCategories is "all", the distinct non-empty categories, then
\* "uncategorized", and no value occurs twice in it.
C8_AvailableCategoriesDistinct ==
    LET c == getAvailableCategories(documents)
    IN  /\ c[1] = sAll
        /\ c[Len(c)] = sUncategorized
        /\ NoDuplicates(c)

\* C9: an uploaded application/pdf file for which no colour was picked becomes a
\* document with the pdf default colour #FFEBEE, and a picked colour is the
\* colour of the document.
C9_UploadColor ==
    lastUpload.done
        => /\ (lastUpload.file.type = sMimePdf /\ ~lastUpload.picked)
                => lastUpload.doc.backgroundColor = ColorPdf
           /\ lastUpload.picked
                => lastUpload.doc.backgroundColor = lastUpload.chosen

\* C10: a file above 10 MiB is rejected with the size-limit error, and no upload
\* in flight carries such a file.
C10_OversizedRejected ==
    /\ offered.size > 10 * 1024 * 1024 => modalError = ErrSizeLimit
    /\ upl.pc # "idle" => upl.params.file.size <= 10 * 1024 * 1024

\* the documents of docs that are marked favorite, in the order of docs
Favorites(docs) == SelectSeq(docs, LAMBDA d : d.favorite = TRUE)

\* the documents of docs that are articles, in the order of docs
Articles(docs) == SelectSeq(docs, LAMBDA d : d.type = "article")

\* the collection is the two-document scenario: document 1, an article marked
\* favorite, then document 2, a pdf that is not
TwoDocumentScenario ==
    /\ Len(documents) = 2
    /\ documents[1].id = 1 /\ documents[1].type = "article" /\ documents[1].favorite
    /\ documents[2].id = 2 /\ documents[2].type = "pdf" /\ ~documents[2].favorite

\* C11: with an empty query and default filter options, section "favorites"
\* shows exactly the favorite documents and section "articles" exactly the
\* articles, in the order of the collection; in the two-document scenario
\* "favorites" shows document 1 alone.
C11_FavoritesAndArticles ==
    (searchQuery = <<>> /\ filters = DefaultFilters)
        => /\ currentSection = "favorites"
                => filteredDocuments = Favorites(documents)
           /\ currentSection = "articles"
                => filteredDocuments = Articles(documents)
           /\ (currentSection = "favorites" /\ TwoDocumentScenario)
                => filteredDocuments = <<documents[1]>>

\* C11 witness: the two-document scenario in section "favorites", default
\* options, document 1 shown alone
C11_Witness ==
    /\ searchQuery = <<>> /\ filters = DefaultFilters
    /\ currentSection = "favorites"
    /\ TwoDocumentScenario
    /\ Len(filteredDocuments) = 1 /\ filteredDocuments[1].id = 1

\* the letters p, d, f follow each other in s, in either letter case
SpellsPdf(s) ==
    \E i \in 1..(Len(s) - 2) :
        /\ s[i] \in {"p", "P"}
        /\ s[i + 1] \in {"d", "D"}
        /\ s[i + 2] \in {"f", "F"}

\* the title, a tag or the category of the document spells "pdf"
MentionsPdf(d) ==
    \/ SpellsPdf(d.title)
    \/ \E i \in 1..Len(d.tags) : SpellsPdf(d.tags[i])
    \/ SpellsPdf(d.category)

\* the statement of C12 as the specification gives it: in the two-document
\* scenario, section "files", query "pdf" and default options show document 2,
\* the pdf, alone.
C12_SearchPdfShowsThePdf ==
    ( /\ currentSection = "files" /\ searchQuery = sPdfQuery
      /\ filters = DefaultFilters /\ TwoDocumentScenario )
        => filteredDocuments = <<documents[2]>>

\* C12, amended: with section "files", query "pdf" and default options the
\* documents shown are exactly those whose title, one of whose tags or whose
\* category spells "pdf" in either letter case, in the order of the collection;
\* the type of a document is not searched, so a pdf whose title, tags and
\* category do not spell "pdf" is not shown.
C12_SearchReadsTitleTagsCategory ==
    (currentSection = "files" /\ searchQuery = sPdfQuery /\ filters = DefaultFilters)
        => /\ filteredDocuments = SelectSeq(documents, LAMBDA d : MentionsPdf(d))
           /\ \A i \in 1..Len(documents) :
                 (documents[i].type = "pdf" /\ ~MentionsPdf(documents[i]))
                     => ~Contains(filteredDocuments, documents[i])

\* C12 witness: the two-document scenario searched for "pdf": the article
\* titled "PDF notes" is shown and the pdf titled "Plan" is not
C12_Witness ==
    /\ currentSection = "files" /\ searchQuery = sPdfQuery
    /\ filters = DefaultFilters /\ TwoDocumentScenario
    /\ documents[1].title = sTitlePdf /\ documents[2].title = sTitlePlan
    /\ filteredDocuments = <<documents[1]>>

\* C13: while the viewer shows one document, a step of a loadDocument that was
\* started for another document writes nothing into the viewer state: not the
\* content, the URLs, the content type, the error or the loading flag.
C13_NoStaleWrite ==
    [][\A i \in 1..Len(loads) :
          ( /\ isViewerOpen
            /\ selectedDocument.id # loads[i].document.id
            /\ loads'[i] # loads[i] )
          => viewer' = viewer]_vars

\* the storage path of the document ends with a markdown extension
HasMarkdownExtension(d) ==
    /\ d.storagePath # Null
    /\ \/ EndsWith(d.storagePath, <<".", "m", "d">>)
       \/ EndsWith(d.storagePath, <<".", "m", "a", "r", "k", "d", "o", "w", "n">>)

\* the invocation i of loadDocument has chosen the content type of its document
Dispatched(i) == loads[i].contentType # Null

\* C17: every load of a document that is no article and whose storage path ends
\* with a markdown extension, or whose type is markdown, selects the content
\* type text/markdown and goes on to fetch the raw text, whatever the type of
\* the document; a load selects the pdf or the image content type only for a
\* document to which the markdown rule does not apply.
C17_MarkdownRuleFirst ==
    \A i \in 1..Len(loads) :
        LET d == loads[i].document
        IN  (Dispatched(i) /\ d.type # "article")
                => /\ (HasMarkdownExtension(d) \/ d.type = "markdown")
                        => /\ loads[i].contentType = sMimeMarkdown
                           /\ loads[i].fetched
                   /\ loads[i].contentType \in {sMimePdf, sMimeJpeg}
                        => ~(HasMarkdownExtension(d) \/ d.type = "markdown")

\* the invocation i of loadDocument ran with no other invocation in flight when
\* it started, returned while the viewer showed its document, and no call to
\* the store failed in it
SettledLoad(i) ==
    /\ loads[i].pc = "done"
    /\ loads[i].alone
    /\ loads[i].rendered \notin {"none", "error"}

\* C18: two settled loads of documents of equal type and storagePath end in the
\* same rendered branch, whatever the preview response and the outcome of the
\* fetch of the raw text were.
C18_ModeFromTypeAndPath ==
    \A i, j \in 1..Len(loads) :
        ( /\ SettledLoad(i) /\ SettledLoad(j)
          /\ loads[i].document.type = loads[j].document.type
          /\ loads[i].document.storagePath = loads[j].document.storagePath )
        => loads[i].rendered = loads[j].rendered

\* the invocation i returns to its handler in this step
OpReturns(i) == ops[i].pc # "done" /\ ops'[i].pc = "done"

\* C14: the collection changes only in a step in which the list at mount
\* arrives or the store call of a toggle or of a delete returns success; a step
\* in which the store call fails leaves the collection as it was, and the
\* handler has caught what the service threw; starting an operation changes
\* nothing.
C14_CollectionChangesAfterSuccess ==
    [][/\ documents' # documents
            => \/ listing /\ ~listing'
               \/ \E i \in 1..Len(ops) : OpReturns(i) /\ ops'[i].result = "true"
       /\ \A i \in 1..Len(ops) :
            OpReturns(i)
                => /\ ops'[i].result \in {"true", "thrown"}
                   /\ ops'[i].result = "thrown" => documents' = documents
                   /\ (ops'[i].result = "true" /\ ops[i].kind = "toggle")
                        => documents' =
                             [k \in 1..Len(documents) |->
                                 IF documents[k].id = ops[i].id
                                 THEN [documents[k] EXCEPT !.favorite = ops[i].isFavorite]
                                 ELSE documents[k]]
                   /\ (ops'[i].result = "true" /\ ops[i].kind = "delete")
                        => documents' =
                             SelectSeq(documents, LAMBDA doc : doc.id # ops[i].id)
       /\ Len(ops') > Len(ops) => documents' = documents]_vars

\* a toggle has failed and left the favorite flag of its document as it was,
\* and a delete has succeeded and taken its document out of the collection
C14_Witness ==
    \E i, j \in 1..Len(ops) :
        /\ ops[i].kind = "toggle" /\ ops[i].result = "thrown"
        /\ \E k \in 1..Len(documents) :
              documents[k].id = ops[i].id /\ documents[k].favorite # ops[i].isFavorite
        /\ ops[j].kind = "delete" /\ ops[j].result = "true"
        /\ \A k \in 1..Len(documents) : documents[k].id # ops[j].id
        /\ documents # <<>>

\* C16: for a document with a storage path, the record is deleted only by an
\* invocation whose removal of the blob has already returned; whatever the
\* removal reports, the invocation goes on to the deletion of the record; and
\* the result of the invocation is that of the deletion of the record.
C16_BlobBeforeRecord ==
    [][\A i \in 1..Len(ops) :
          (ops[i].kind = "delete" /\ ops'[i] # ops[i])
              => /\ ops[i].pc = "remove"
                    => /\ ops'[i].pc = "delete"
                       /\ ops'[i].removal \in {"ok", "error"}
                       /\ dbRows' = dbRows
                 /\ (ops[i].pc = "select" /\ ops'[i].pc # "done")
                    => /\ dbRows' = dbRows
                       /\ ops'[i].pc = IF Falsy(ops'[i].storage_path)
                                       THEN "delete" ELSE "remove"
                 /\ ops[i].pc = "delete"
                    => /\ ~Falsy(ops[i].storage_path)
                            => ops[i].removal \in {"ok", "error"}
                       /\ ops'[i].pc = "done"
                       /\ ops'[i].result = "true" => ~HasRow(dbRows', ops[i].id)
                       /\ ops'[i].result = "thrown" => dbRows' = dbRows
                       /\ ops'[i].result \in {"true", "thrown"}]_vars

\* the removal of the blob reported an error, the blob is still in the bucket,
\* and the delete succeeded: the record is gone
C16_Witness ==
    \E i \in 1..Len(ops) :
        /\ ops[i].kind = "delete"
        /\ ops[i].removal = "error"
        /\ ops[i].result = "true"
        /\ ops[i].storage_path \in storageBlobs
        /\ ~HasRow(dbRows, ops[i].id)

\* C15: when the insert of the record fails after the blob has been stored, the
\* caller has no error yet and uploadFile is at the removal of the blob; the
\* record error reaches the caller only in the step in which that removal
\* returns, and it reaches the caller whether the blob was removed or not.
C15_CleanupBeforeError ==
    [][/\ (upl.pc = "insert" /\ upl' # upl /\ dbRows' = dbRows)
            => /\ upl'.pc = "cleanup"
               /\ upl.filePath \in storageBlobs'
               /\ isUploading'
               /\ modalError' = modalError
       /\ (modalError' = ErrCreatingRecord /\ modalError # ErrCreatingRecord)
            => upl.pc = "cleanup"
       /\ (upl.pc = "cleanup" /\ upl' # upl)
            => /\ modalError' = ErrCreatingRecord
               /\ ~isUploading'
               /\ dbRows' = dbRows
               /\ storageBlobs' \in {storageBlobs, storageBlobs \ {upl.filePath}}]_vars

\* the record could not be created and the blob could not be removed: the blob
\* is still in the bucket and the form shows the record error
C15_Witness ==
    /\ modalError = ErrCreatingRecord
    /\ upl = UplIdle
    /\ ~isUploading
    /\ storageBlobs # {}
    /\ dbRows = <<>>

\* C19: every document of the collection has exactly one of content and
\* storagePath: an article has content that is not blank and no storage path,
\* an uploaded file has a storage path that is not empty and no content.
C19_ContentOrStoragePath ==
    \A i \in 1..Len(documents) :
        LET doc == documents[i]
        IN  /\ ~Falsy(doc.content) # ~Falsy(doc.storagePath)
            /\ doc.type = "article"
                 => /\ ~Falsy(Trim(doc.content))
                    /\ doc.storagePath = Null
            /\ doc.type # "article"
                 => /\ ~Falsy(doc.storagePath)
                    /\ doc.content = Null

\* the collection holds an article saved from the editor and an uploaded file
C19_Witness ==
    \E i, j \in 1..Len(documents) :
        /\ documents[i].type = "article"
        /\ documents[i].content = Trim(sBody)
        /\ documents[j].type # "article"
        /\ documents[j].storagePath \in storageBlobs

\* the test of the section stage for one document, lines 47-50
SectionMatch(doc, section) ==
    CASE section = "favorites" -> doc.favorite
      [] section = "articles"  -> doc.type = "article"
      [] OTHER                 -> TRUE

\* the six predicates of the current state, a stage without a selection letting
\* every document through
PassesEveryStage(doc) ==
    /\ SectionMatch(doc, currentSection)
    /\ Falsy(searchQuery) \/ SearchMatch(doc, ToLowerCase(searchQuery))
    /\ Len(filters.types) = 0 \/ TypeMatch(doc, filters.types)
    /\ Len(filters.categories) = 0 \/ CategoryMatch(doc, filters.categories)
    /\ Len(filters.tags) = 0 \/ TagMatch(doc, filters.tags)
    /\ filters.timeframe = "all"
          \/ TimeMatch(doc, filters.timeframe, StartOfLocalDay(now, tz))

\* the k-th stage of the effect applied to docs in the current state
Stage(k, docs) ==
    CASE k = 1 -> SectionFilter(docs, currentSection)
      [] k = 2 -> SearchFilter(docs, searchQuery)
      [] k = 3 -> TypeFilter(docs, filters.types)
      [] k = 4 -> CategoryFilter(docs, filters.categories)
      [] k = 5 -> TagFilter(docs, filters.tags)
      [] k = 6 -> TimeFilter(docs, filters.timeframe, now, tz)

\* the stages applied in the order given
RECURSIVE ApplyStages(_, _)
ApplyStages(order, docs) ==
    IF order = <<>> THEN docs
    ELSE ApplyStages(Tail(order), Stage(Head(order), docs))

\* the stages of the effect, numbered in the order of the code
Stages == 1..6

StageCount == Cardinality(Stages)

\* the order of the code with the stages a and b exchanged
Exchanged(a, b) ==
    [k \in 1..StageCount |-> IF k = a THEN b ELSE IF k = b THEN a ELSE k]

\* the order of the code started at stage a and wrapped around
Rotated(a) == [k \in 1..StageCount |-> ((k + a - 2) % StageCount) + 1]

\* the order of the code, the reverse order, every rotation and every exchange
\* of two stages
StageOrders ==
    {[k \in 1..StageCount |-> StageCount + 1 - k]}
        \cup {Rotated(a) : a \in 1..StageCount}
        \cup {Exchanged(a, b) : a, b \in 1..StageCount}

\* C20: in a section other than 'recent' the filter result is the documents of
\* the collection that pass the section, search, type, category, tag and
\* timeframe predicates together, in the order of the collection, and the
\* stages applied in another order give the same result.
C20_FilterIsIntersection ==
    currentSection # "recent"
        => /\ filteredDocuments = SelectSeq(documents, PassesEveryStage)
           /\ \A order \in StageOrders :
                 ApplyStages(order, documents) = filteredDocuments

\* every stage has a selection, and together they keep some documents and drop
\* others
C20_Witness ==
    /\ currentSection = "favorites"
    /\ ~Falsy(searchQuery)
    /\ Len(filters.types) > 0
    /\ Len(filters.categories) > 0
    /\ Len(filters.tags) > 0
    /\ filters.timeframe # "all"
    /\ filteredDocuments # <<>>
    /\ Len(filteredDocuments) < Len(documents)

\* sub is a run of consecutive characters of s
Within(sub, s) == \E a, b \in 0..Len(s) : a <= b /\ SubSeq(s, a + 1, b) = sub

\* the text test of the search for one document, as the sentence states it
PassesSearch(doc, query) ==
    \/ query = <<>>
    \/ Within(ToLowerCase(query), ToLowerCase(doc.title))
    \/ \E t \in Range(doc.tags) : Within(ToLowerCase(query), ToLowerCase(t))
    \/ /\ doc.category # <<>>
       /\ doc.category # Null
       /\ Within(ToLowerCase(query), ToLowerCase(doc.category))

\* C21: the search stage keeps a document exactly when the query is empty or
\* the lower-cased query is contained in its lower-cased title, in one of its
\* lower-cased tags or in its lower-cased category, if it has one; with no
\* other stage selecting, that is the list shown.
C21_SearchPredicate ==
    /\ \A i \in 1..Len(documents) :
          Contains(SearchFilter(documents, searchQuery), documents[i])
              <=> PassesSearch(documents[i], searchQuery)
    /\ (currentSection = "files" /\ filters = DefaultFilters)
          => filteredDocuments =
                SelectSeq(documents, LAMBDA doc : PassesSearch(doc, searchQuery))

\* a query in capitals finds one document by its category and drops the others
C21_Witness ==
    /\ searchQuery = sWorkQuery
    /\ currentSection = "files"
    /\ filters = DefaultFilters
    /\ Len(filteredDocuments) = 1
    /\ filteredDocuments[1].category = sWork
    /\ filteredDocuments[1].title = sTitlePlan

\* the documents of docs dated at or after the instant t, in the order of docs
DatedSince(docs, t) == SelectSeq(docs, LAMBDA doc : doc.dateAdded >= t)

\* what the effect shows in the current state with the timeframe set to timeId
ShownFor(timeId) ==
    Filter(documents, currentSection, searchQuery,
           [filters EXCEPT !.timeframe = timeId], now, tz)

\* C22: 'thisWeek' keeps exactly the documents dated at or after local midnight
\* minus 7 * 24 hours and 'thisMonth' those at or after local midnight minus
\* 30 * 24 hours; whatever else is selected, what is shown for 'today' is part
\* of what is shown for 'thisWeek', that of what is shown for 'thisMonth', and
\* that of what is shown for 'all'.
C22_FixedDurations ==
    /\ TimeFilter(documents, "thisWeek", now, tz)
          = DatedSince(documents, LocalMidnight - (7 * 24))
    /\ TimeFilter(documents, "thisMonth", now, tz)
          = DatedSince(documents, LocalMidnight - (30 * 24))
    /\ TimeFilter(documents, "all", now, tz) = documents
    /\ (currentSection = "files" /\ searchQuery = <<>> /\ filters.types = <<>>
          /\ filters.categories = <<>> /\ filters.tags = <<>>)
          => /\ filters.timeframe = "thisWeek"
                  => filteredDocuments = DatedSince(documents, LocalMidnight - (7 * 24))
             /\ filters.timeframe = "thisMonth"
                  => filteredDocuments = DatedSince(documents, LocalMidnight - (30 * 24))
    /\ Range(ShownFor("today")) \subseteq Range(ShownFor("thisWeek"))
    /\ Range(ShownFor("thisWeek")) \subseteq Range(ShownFor("thisMonth"))
    /\ Range(ShownFor("thisMonth")) \subseteq Range(ShownFor("all"))

\* 'thisWeek' shows the document dated exactly 7 days before local midnight and
\* not the one dated an hour earlier, and each timeframe shows strictly more
\* than the one before it
C22_Witness ==
    /\ filters.timeframe = "thisWeek"
    /\ currentSection = "files"
    /\ \E i \in 1..Len(filteredDocuments) :
          filteredDocuments[i].dateAdded = LocalMidnight - (7 * 24)
    /\ \E i \in 1..Len(documents) :
          /\ documents[i].dateAdded = LocalMidnight - (7 * 24) - 1
          /\ ~Contains(filteredDocuments, documents[i])
    /\ Len(ShownFor("today")) < Len(ShownFor("thisWeek"))
    /\ Len(ShownFor("thisWeek")) < Len(ShownFor("thisMonth"))
    /\ Len(ShownFor("thisMonth")) < Len(ShownFor("all"))

\* how many documents of docs come before docs[i] in descending date order with
\* ties kept in the order of docs
RankByDate(docs, i) ==
    Cardinality({j \in 1..Len(docs) :
        \/ docs[j].dateAdded > docs[i].dateAdded
        \/ docs[j].dateAdded = docs[i].dateAdded /\ j < i})

\* the first 6 documents of docs in that order
NewestSix(docs) ==
    [k \in 1..(IF Len(docs) < 6 THEN Len(docs) ELSE 6) |->
        docs[CHOOSE i \in 1..Len(docs) : RankByDate(docs, i) = k - 1]]

\* C23: in section 'recent' the list shown is the first 6 documents of the
\* collection in descending date order, ties in collection order, when nothing
\* else is selected, and otherwise the documents among these 6 that pass the
\* search and the options.
C23_RecentThenPredicates ==
    currentSection = "recent"
        => /\ filteredDocuments = SelectSeq(NewestSix(documents), PassesEveryStage)
           /\ (searchQuery = <<>> /\ filters = DefaultFilters)
                => filteredDocuments = NewestSix(documents)

\* with a query in section 'recent', a document that matches the query is not
\* shown although fewer than 6 are: it is not among the 6 newest of the
\* collection; and of two documents of equal date the earlier one of the
\* collection is among the 6 newest while the later one is not
C23_Witness ==
    /\ currentSection = "recent"
    /\ searchQuery # <<>>
    /\ filteredDocuments # <<>>
    /\ Len(filteredDocuments) < 6
    /\ \E i \in 1..Len(documents) :
          /\ PassesEveryStage(documents[i])
          /\ ~Contains(filteredDocuments, documents[i])
    /\ \E i, j \in 1..Len(documents) :
          /\ i < j
          /\ documents[i].dateAdded = documents[j].dateAdded
          /\ Contains(NewestSix(documents), documents[i])
          /\ ~Contains(NewestSix(documents), documents[j])

\* C24: a step in which the section, the query or the options change, and the
\* filtered list is computed again, leaves the collection as it was, element by
\* element and in the same order, and changes none of the other two; the
\* collection stays the one the session started with.
C24_FilteringLeavesCollection ==
    [][/\ documents' = documents
       /\ documents = RecentDocuments
       /\ Cardinality({k \in 1..3 :
             <<currentSection', searchQuery', filters'>>[k]
                # <<currentSection, searchQuery, filters>>[k]}) <= 1
       /\ filteredDocuments' =
             Filter(documents, currentSection', searchQuery', filters', now, tz)]_vars

\* section 'recent' shows the documents in date order while the collection is
\* still in the order it had, which is not the date order
C24_Witness ==
    /\ currentSection = "recent"
    /\ SortedByDateDesc(filteredDocuments)
    /\ Len(filteredDocuments) = 6
    /\ ~SortedByDateDesc(documents)
    /\ documents = RecentDocuments
    /\ filteredDocuments # SubSeq(documents, 1, 6)

\* nothing but blanks
Blank(s) == \A i \in 1..Len(s) : s[i] = " "

\* C25: no call to the store starts from an article form whose title or
\* content is blank, nor from an upload form whose title is blank or that has
\* no file; the step that shows 'Title and content are required' or 'Title and
\* file are required' starts from such a form, leaves the collection, the store
\* and the fields of the form as they were, and leaves the form open; and every
\* run of handleSave or handleSubmit from such a form is such a step.
C25_BlankSubmitRejected ==
    [][/\ (saving.pc = "idle" /\ saving'.pc # "idle")
            => ~Blank(editor.title) /\ ~Blank(editor.content)
       /\ (upl.pc = "idle" /\ upl'.pc # "idle")
            => ~Blank(title) /\ selectedFile # NoFile
       /\ (editor'.error = ErrTitleContent /\ editor.error # ErrTitleContent)
            => /\ Blank(editor.title) \/ Blank(editor.content)
               /\ editor' = [editor EXCEPT !.error = ErrTitleContent]
               /\ ~editor'.isSaving
               /\ isEditorVisible /\ isEditorVisible'
               /\ UNCHANGED <<saving, documents, filteredDocuments, dbRows, storageBlobs>>
       /\ (modalError' = ErrRequired /\ modalError # ErrRequired)
            => /\ Blank(title) \/ selectedFile = NoFile
               /\ ~isUploading'
               /\ isUploadModalVisible /\ isUploadModalVisible'
               /\ UNCHANGED <<title, selectedFile, backgroundColor, upl, documents,
                              filteredDocuments, dbRows, storageBlobs>>
       /\ (HandleSave /\ (Blank(editor.title) \/ Blank(editor.content)))
            => /\ editor'.error = ErrTitleContent
               /\ isEditorVisible'
               /\ UNCHANGED <<saving, documents, dbRows>>
       /\ ((\E rnd \in RandomNames : HandleSubmit(rnd))
             /\ (Blank(title) \/ selectedFile = NoFile))
            => /\ modalError' = ErrRequired
               /\ isUploadModalVisible'
               /\ UNCHANGED <<upl, documents, dbRows, storageBlobs>>]_vars

\* the article form shows its error after a save with a title and a content of
\* blanks only: it is open, nothing is being saved and no article exists
C25_Witness ==
    /\ editor.error = ErrTitleContent
    /\ editor.title = sTitlePlan
    /\ editor.content = sBlank
    /\ isEditorVisible
    /\ ~editor.isSaving
    /\ saving = SaveIdle
    /\ \A i \in 1..Len(dbRows) : dbRows[i].type # "article"

\* C26: while the viewer is closed its state is the reset one: no preview URL,
\* no download URL, no file content, no content type and no error, whatever
\* load was in flight when it was closed.
C26_ClosedViewerStaysReset ==
    ~isViewerOpen
        => /\ viewer.previewUrl = Null
           /\ viewer.downloadUrl = Null
           /\ viewer.fileContent = Null
           /\ viewer.contentType = <<>>
           /\ viewer.error = Null

\* docs is the store's list: one document for each row, newest first
IsStoreList(docs) ==
    /\ Len(docs) = Len(dbRows)
    /\ \A i \in 1..Len(dbRows) : Contains(docs, transformSupabaseDocument(dbRows[i]))
    /\ SortedByDateDesc(docs)

\* C27: a run of fetchDocuments ends with isLoading false; when the list call
\* fails the error is set, the collection is the one held before and no fetch
\* is in flight; when it succeeds the error is null and the collection is the
\* store's list; a fetch starts only from the Retry button; and every run ends.
C27_FetchEnds ==
    /\ [][/\ (listing /\ ~listing')
               => /\ ~isLoading'
                  /\ \/ error' = ErrLoading /\ documents' = documents
                     \/ error' = Null /\ IsStoreList(documents')
          /\ (~listing /\ listing') => RetryFetch
          /\ listing <=> isLoading]_vars
    /\ (isLoading ~> ~isLoading)

\* after a failed fetch the error is shown over a collection that holds the
\* article saved meanwhile, which the store's list of three would replace
C27_Witness ==
    /\ error = ErrLoading
    /\ ~isLoading /\ ~listing
    /\ Len(documents) = 1
    /\ Len(dbRows) = 3
    /\ documents[1].type = "article"

\* a list of selected ids that holds the sentinel holds nothing else
SentinelAlone(selected, allId) == Contains(selected, allId) => selected = <<allId>>

\* C28: after any sequence of type, category, tag and timeframe selections and
\* clear-all actions, filters.types holding 'all' is exactly ['all'], and
\* likewise filters.categories; each selection changes only its own field of
\* the filter options, and clear-all gives the default options.
C28_SentinelAlone ==
    /\ SentinelAlone(filters.types, "all")
    /\ SentinelAlone(filters.categories, sAll)
    /\ [][/\ SentinelAlone(filters'.types, "all")
          /\ SentinelAlone(filters'.categories, sAll)
          /\ ChangeType     => filters' = [filters EXCEPT !.types = filters'.types]
          /\ ChangeCategory => filters' = [filters EXCEPT !.categories = filters'.categories]
          /\ ChangeTime     => filters' = [filters EXCEPT !.timeframe = filters'.timeframe]
          /\ ChangeTag      => filters' = [filters EXCEPT !.tags = filters'.tags]
          /\ ClearAllFilters => filters' = DefaultFilters
          /\ (filters' # filters)
                => ChangeType \/ ChangeCategory \/ ChangeTime \/ ChangeTag
                     \/ ClearAllFilters]_vars

\* 'all' is checked for the types and for the categories, with a timeframe and
\* a tag chosen as well
C28_Witness ==
    /\ filters.types = <<"all">>
    /\ filters.categories = <<sAll>>
    /\ filters.timeframe # "all"
    /\ filters.tags # <<>>

\* C29: in the PDF viewer, after any sequence of nextPage, prevPage,
\* document-load-success and close/reset events, the page number is at least 1
\* and at most max(numPages, 1).
C29_PageInRange ==
    /\ 1 <= viewer.pageNumber
    /\ viewer.pageNumber <= OrOne(viewer.numPages)

\* the delete of document id has returned success and has been applied
DeleteApplied(id) ==
    \E i \in 1..Len(ops) :
        ops[i].kind = "delete" /\ ops[i].id = id /\ ops[i].result = "true"

\* C30: once a delete of a document has succeeded and been applied, the
\* document is in the collection in no later state, whichever toggles complete
\* afterwards; a completing toggle keeps the length and the order of the
\* collection and changes at most the favorite flag of the document of its id.
C30_DeletedStaysAbsent ==
    /\ \A i \in 1..Len(ops) : DeleteApplied(ops[i].id) => ~HasId(documents, ops[i].id)
    /\ [][\A i \in 1..Len(ops) :
            /\ DeleteApplied(ops[i].id) => ~HasId(documents', ops[i].id)
            /\ (OpReturns(i) /\ ops[i].kind = "toggle")
                 => /\ Len(documents') = Len(documents)
                    /\ \A k \in 1..Len(documents) :
                          /\ documents'[k].id = documents[k].id
                          /\ documents[k].id # ops[i].id => documents'[k] = documents[k]
                          /\ [documents'[k] EXCEPT !.favorite = documents[k].favorite]
                                = documents[k]
                    /\ DeleteApplied(ops[i].id) => documents' = documents]_vars

\* a delete and a toggle of the same document have both returned success, the
\* document is gone and the other document is still in the collection
C30_Witness ==
    \E i, j \in 1..Len(ops) :
        /\ ops[i].kind = "delete" /\ ops[i].result = "true"
        /\ ops[j].kind = "toggle" /\ ops[j].result = "true" /\ ops[j].id = ops[i].id
        /\ ~HasId(documents, ops[i].id)
        /\ Len(documents) = 1

====
